---- MODULE Spec2Model ----
(***************************************************************************)
(* Model of the task scheduling core of tangram-ai:                        *)
(*   CronStore  (scheduler/cronStore.ts, kept as src/unnamed/part_000)     *)
(*   CronRunner (src/src/scheduler/cronRunner.ts)                          *)
(*                                                                         *)
(* The program runs on one JavaScript event loop.  A step of the model is  *)
(* one run-to-completion segment of code: from the event that resumes it   *)
(* (a timer firing, a call, the settlement of an awaited promise) to the   *)
(* next await of real asynchronous work (invoke, onTaskReply,              *)
(* fs.writeFile).  Awaits of already settled promises only add microtask   *)
(* turns, between which no other event can run, so they end no segment.    *)
(*                                                                         *)
(* Time is in milliseconds, as Date.now() gives it.                        *)
(***************************************************************************)
EXTENDS Integers, Sequences, FiniteSets, TLC

\* ---------------------------------------------------------------- bounds
\* number of times the wall clock moves during a run
MaxAdvances == 1
\* number of fs.writeFile calls that are allowed to fail during a run
MaxWriteFail == 1
\* number of CronStore.schedule calls during a run that name an id which
\* was scheduled before (the first schedule of each id is always possible)
MaxReschedules == 0
\* number of schedule() calls that go through when the store is driven on
\* its own
MaxStoreSchedules == 1
\* the last day (counted from 1970-01-01) of the local dates and of the
\* instants that the time zone functions are asked about
MaxDay == 7
\* tick() activations the model can hold at once (the code keeps it at one;
\* the model has room for more so that an overlap would be visible)
MaxTicks == 2
\* activations of HeartbeatRunner.tick() the model can hold at once (the
\* code keeps it at one as well)
MaxBeats == 2

\* ----------------------------------------------------- program constants
\* index.ts: tickSeconds: cronCfg?.tickSeconds ?? 15
DefaultTickSeconds == 15
\* cronRunner.ts: Math.max(5, this.opts.tickSeconds)
MinTickSeconds == 5
\* cronStore.ts: const retryInMs = 60_000
retryInMs == 60000
\* cronStore.ts normalizeTask: everySeconds < 5 is rejected
MinEverySeconds == 5

\* ------------------------------------------------------------ input sets
Ids == {"a", "b"}
OneId == {"a"}
IdOrder == {<<"a", "b">>}
\* how far the clock moves in one step: longer than the retry delay, and
\* not a multiple of an interval, so that slots are missed
Delays == {61000}

\* An ISO-8601 string is modelled by the fields it spells out: the local
\* date-time l (as milliseconds) and the zone designator o (minutes east of
\* UTC; "Z" is 0).  ok = FALSE is a string Date.parse cannot read.
IsoZ(ms) == [l |-> ms, o |-> 0, ok |-> TRUE]
IsoOff(l, o) == [l |-> l, o |-> o, ok |-> TRUE]
BadIso == [l |-> 0, o |-> 0, ok |-> FALSE]

\* Date.parse(iso): the instant in ms (only meaningful when DateParseOk)
DateParse(iso) == iso.l - iso.o * 60000
\* Number.isFinite(Date.parse(iso))
DateParseOk(iso) == iso.ok
\* new Date(ms).toISOString(): always the "Z" form
toISOString(ms) == IsoZ(ms)

\* A local time text "HH:mm" is modelled by its two numbers as written.
LocalTimeText(h, m) == [hh |-> h, mm |-> m]
NoLocalTime == LocalTimeText(0, 0)

\* repeat values a caller can pass (cronTools.ts builds all three modes).
\* A repeat object has only the properties of its mode; the others are
\* kept blank here and never read, see HasEverySeconds.
\* everySeconds is a number: its whole part, and half (it is n + 0.5).
Once ==
  [mode |-> "once", everySeconds |-> 0, half |-> FALSE, timezone |-> "",
   localTime |-> NoLocalTime]
Interval(n) ==
  [mode |-> "interval", everySeconds |-> n, half |-> FALSE, timezone |-> "",
   localTime |-> NoLocalTime]
HalfSeconds(n) == [Interval(n) EXCEPT !.half = TRUE]
\* cron_schedule_local with repeatMode "daily": every day at 00:01 UTC
DailyLocal ==
  [mode |-> "daily_local", everySeconds |-> 0, half |-> FALSE, timezone |-> "UTC",
   localTime |-> LocalTimeText(0, 1)]
\* the repeat object has an everySeconds property
HasEverySeconds(repeat) == repeat.mode = "interval"

\* ------------------------------------------------------ timezone.ts
\* A calendar date (year, month, day) is modelled by its day number since
\* 1970-01-01, so Date.UTC and getUTC* are plain arithmetic.
DayMs == 24 * 3600 * 1000
HourMs == 3600 * 1000
MinuteMs == 60 * 1000

\* The zones of the model.  Instants are small numbers here (the first days
\* of 1970), so each zone has its rules as Intl.DateTimeFormat applies them
\* but with its transitions moved to those days:
\*   "UTC"               offset 0 throughout (the zone of the tasks);
\*   "America/New_York"  UTC-5, clocks go from 02:00 to 03:00 on day 2 and
\*                       from 02:00 back to 01:00 on day 5;
\*   "Europe/Berlin"     UTC+1, clocks go from 02:00 to 03:00 on day 2 and
\*                       from 03:00 back to 02:00 on day 5;
\*   "Pacific/Apia"      UTC-10 until the end of day 2, UTC+14 from then on:
\*                       the local date 3 does not exist (as 2011-12-30).
Zones == {"UTC", "America/New_York", "Europe/Berlin", "Pacific/Apia"}
SpringDay == 2
FallDay == 5
SkipDay == 3
OffsetMin(tz, ms) ==
  IF tz = "America/New_York"
  THEN IF ms >= SpringDay * DayMs + 7 * HourMs /\ ms < FallDay * DayMs + 6 * HourMs
       THEN -240 ELSE -300
  ELSE IF tz = "Europe/Berlin"
  THEN IF ms >= SpringDay * DayMs + 1 * HourMs /\ ms < FallDay * DayMs + 1 * HourMs
       THEN 120 ELSE 60
  ELSE IF tz = "Pacific/Apia"
  THEN IF ms < SkipDay * DayMs + 10 * HourMs THEN -600 ELSE 840
  ELSE 0
\* the offsets a zone has at one time or another
ZoneOffsets(tz) ==
  IF tz = "America/New_York" THEN {-300, -240}
  ELSE IF tz = "Europe/Berlin" THEN {60, 120}
  ELSE IF tz = "Pacific/Apia" THEN {-600, 840}
  ELSE {0}

\* Date.UTC(year, month - 1, day, hour, minute, 0, 0)
DateUTC(date, hour, minute) == date * DayMs + hour * HourMs + minute * MinuteMs

\* formatToPartsMs(ms, timezone): the local date, hour and minute
formatToPartsMs(ms, tz) ==
  LET local == ms + OffsetMin(tz, ms) * MinuteMs
  IN [date |-> local \div DayMs,
      hour |-> (local % DayMs) \div HourMs,
      minute |-> (local % HourMs) \div MinuteMs]

\* addDays(date, days)
addDays(date, days) == date + days

\* parseLocalTime(time): [throws, hour, minute]
parseLocalTime(t) == [throws |-> t.hh > 23 \/ t.mm > 59, hour |-> t.hh, minute |-> t.mm]

\* a loop that corrects the guess once and stops
refineGuessOnce(guess, target, tz, n) ==
  LET q == formatToPartsMs(guess, tz)
  IN guess + (target - DateUTC(q.date, q.hour, q.minute))

\* the for loop of zonedDateTimeToUtcMs with n rounds left
RECURSIVE refineGuess(_, _, _, _)
refineGuess(guess, target, tz, n) ==
  IF n = 0 THEN guess
  ELSE LET q == formatToPartsMs(guess, tz)
           diff == target - DateUTC(q.date, q.hour, q.minute)
       IN IF diff = 0 THEN guess ELSE refineGuess(guess + diff, target, tz, n - 1)

\* for (let i = 0; i < 8; i++)
GuessRounds == 8

\* a conversion that returns its last guess without comparing its parts
zonedDateTimeToUtcMsUnchecked(tz, date, time) ==
  LET target == DateUTC(date, time.hour, time.minute)
  IN [throws |-> FALSE, ms |-> refineGuess(target, target, tz, GuessRounds)]

\* zonedDateTimeToUtcMs({timezone, date, time}): [throws, ms]
zonedDateTimeToUtcMs(tz, date, time) ==
  LET target == DateUTC(date, time.hour, time.minute)
      guess == refineGuess(target, target, tz, GuessRounds)
      f == formatToPartsMs(guess, tz)
  IN [throws |-> f.date # date \/ f.hour # time.hour \/ f.minute # time.minute,
      ms |-> guess]

\* for (let i = 0; i < 3660; i++)
DayBudget == 3660

\* the for loop of nextLocalTimeUtcIso from day i on: an exception of
\* zonedDateTimeToUtcMs leaves the loop and the function
RECURSIVE nextLocalLoop(_, _, _, _, _)
nextLocalLoop(tz, startDate, time, fromMs, i) ==
  IF i >= DayBudget THEN [throws |-> TRUE, iso |-> BadIso]
  ELSE LET r == zonedDateTimeToUtcMs(tz, addDays(startDate, i), time)
       IN IF r.throws THEN [throws |-> TRUE, iso |-> BadIso]
          ELSE IF r.ms > fromMs THEN [throws |-> FALSE, iso |-> toISOString(r.ms)]
          ELSE nextLocalLoop(tz, startDate, time, fromMs, i + 1)

\* nextLocalTimeUtcIso({timezone, localTime, fromMs}): [throws, iso]
nextLocalTimeUtcIso(tz, localTime, fromMs) ==
  LET time == parseLocalTime(localTime)
  IN IF time.throws THEN [throws |-> TRUE, iso |-> BadIso]
     ELSE nextLocalLoop(tz, formatToPartsMs(fromMs, tz).date, time, fromMs, 0)

\* ------------------------------------------------------------- CronStore
NoTask == 0

\* The store file: exists, and what load() looks at in its text: json (it
\* parses), version, isList (tasks is an array), tasks.
NoFile == [exists |-> FALSE, json |-> FALSE, version |-> 0, isList |-> FALSE, tasks |-> <<>>]
\* JSON.stringify({version: 1, tasks}) as a file
Doc(ts) == [exists |-> TRUE, json |-> TRUE, version |-> 1, isList |-> TRUE, tasks |-> ts]

\* String.prototype.trim on the texts of the model
trim(text) ==
  IF text = " n " THEN "n" ELSE IF text = " do " THEN "do" ELSE IF text = " " THEN "" ELSE text

\* Number.isInteger(repeat.everySeconds)
IsInteger(repeat) == ~repeat.half

\* CronStore.get(id), as the position of the task in this.tasks (0: none)
get(ts, id) ==
  IF \E k \in 1..Len(ts) : ts[k].id = id
  THEN CHOOSE k \in 1..Len(ts) : ts[k].id = id /\ \A j \in 1..(k - 1) : ts[j].id # id
  ELSE NoTask

\* this.tasks.filter((t) => t.id !== id)
WithoutId(ts, id) == LET Keep(t) == t.id # id IN SelectSeq(ts, Keep)

\* parseIsoTime(iso) throws
parseIsoTimeThrows(iso) == ~DateParseOk(iso)

\* a normalizeTask that checks the timestamps alone
normalizeTaskThrowsTimesOnly(t) ==
  \/ parseIsoTimeThrows(t.runAt)
  \/ parseIsoTimeThrows(t.nextRunAt)
  \/ parseIsoTimeThrows(t.createdAt)
  \/ parseIsoTimeThrows(t.updatedAt)
  \/ (t.lastRunAt # <<>> /\ parseIsoTimeThrows(t.lastRunAt[1]))

\* normalizeTask(task) throws
normalizeTaskThrows(t) ==
  \/ parseIsoTimeThrows(t.runAt)
  \/ parseIsoTimeThrows(t.nextRunAt)
  \/ parseIsoTimeThrows(t.createdAt)
  \/ parseIsoTimeThrows(t.updatedAt)
  \/ (t.lastRunAt # <<>> /\ parseIsoTimeThrows(t.lastRunAt[1]))
  \/ /\ t.repeat.mode = "interval"
     /\ ~IsInteger(t.repeat) \/ t.repeat.everySeconds < MinEverySeconds

\* a due() that does not look at the enabled flag
IsDueAnyEnabled(t, nowMs) == DateParseOk(t.nextRunAt) /\ DateParse(t.nextRunAt) <= nowMs

\* CronStore.due(now)
IsDue(t, nowMs) == t.enabled /\ DateParseOk(t.nextRunAt) /\ DateParse(t.nextRunAt) <= nowMs
due(ts, nowMs) == LET Keep(t) == IsDue(t, nowMs) IN SelectSeq(ts, Keep)

\* a schedule() that builds every task as a new one
scheduleTaskFresh(ts, p, nowMs) ==
  LET iso == toISOString(DateParse(p.runAt))
      nowIso == toISOString(nowMs)
  IN [id |-> p.id,
      message |-> trim(p.message),
      threadId |-> trim(p.threadId),
      runAt |-> iso,
      nextRunAt |-> iso,
      repeat |-> p.repeat,
      enabled |-> p.enabled,
      createdAt |-> nowIso,
      updatedAt |-> nowIso,
      lastRunAt |-> <<>>,
      lastError |-> <<>>]

\* the task object schedule() builds from its parameters (before normalizeTask);
\* runAt is only read when it parses
scheduleTask(ts, p, nowMs) ==
  LET k == get(ts, p.id)
      iso == toISOString(DateParse(p.runAt))
      nowIso == toISOString(nowMs)
  IN [id |-> p.id,
      message |-> trim(p.message),
      threadId |-> trim(p.threadId),
      runAt |-> iso,
      nextRunAt |-> iso,
      repeat |-> p.repeat,
      enabled |-> p.enabled,
      createdAt |-> IF k # NoTask THEN ts[k].createdAt ELSE nowIso,
      updatedAt |-> nowIso,
      lastRunAt |-> IF k # NoTask THEN ts[k].lastRunAt ELSE <<>>,
      lastError |-> IF k # NoTask THEN ts[k].lastError ELSE <<>>]

\* a schedule() that pushes the task without looking for its id
scheduleAlwaysPush(ts, p, nowMs) ==
  IF parseIsoTimeThrows(p.runAt) THEN [throws |-> TRUE, tasks |-> ts]
  ELSE LET task == scheduleTask(ts, p, nowMs)
       IN IF normalizeTaskThrows(task) THEN [throws |-> TRUE, tasks |-> ts]
          ELSE [throws |-> FALSE, tasks |-> Append(ts, task)]

\* CronStore.schedule up to its await of save(): [throws, tasks]
schedule(ts, p, nowMs) ==
  IF parseIsoTimeThrows(p.runAt) THEN [throws |-> TRUE, tasks |-> ts]
  ELSE LET task == scheduleTask(ts, p, nowMs)
           k == get(ts, task.id)
       IN IF normalizeTaskThrows(task) THEN [throws |-> TRUE, tasks |-> ts]
          ELSE [throws |-> FALSE,
                tasks |-> IF k # NoTask THEN [ts EXCEPT ![k] = task] ELSE Append(ts, task)]

\* a cancel() that does not compare the lengths
cancelAlwaysFound(ts, id) == [found |-> TRUE, tasks |-> WithoutId(ts, id)]

\* CronStore.cancel up to its await of save(): [found, tasks]
cancel(ts, id) ==
  LET rest == WithoutId(ts, id)
  IN [found |-> Len(rest) # Len(ts), tasks |-> rest]

\* a.localeCompare(b) < 0 on two date-time texts.  The texts of the model
\* have the form YYYY-MM-DDTHH:mm:ss.sss followed by Z or by +HH:MM, with
\* four-digit years: they compare by the local date-time they spell, and
\* then by the zone designator ("+" sorts before digits and letters).
localeCompareLess(a, b) ==
  \/ a.l < b.l
  \/ a.l = b.l /\ a.o # 0 /\ (b.o = 0 \/ a.o < b.o)

\* Array.prototype.sort((a, b) => a.nextRunAt.localeCompare(b.nextRunAt)),
\* which is stable: t goes behind the elements it does not sort before
sortInsert(sorted, t) ==
  LET later == {j \in 1..Len(sorted) : localeCompareLess(t.nextRunAt, sorted[j].nextRunAt)}
      k == IF later = {} THEN Len(sorted) + 1
           ELSE CHOOSE j \in later : \A j2 \in later : j <= j2
  IN SubSeq(sorted, 1, k - 1) \o <<t>> \o SubSeq(sorted, k, Len(sorted))
RECURSIVE sortByNextRunAt(_)
sortByNextRunAt(ts) ==
  IF ts = <<>> THEN <<>>
  ELSE sortInsert(sortByNextRunAt(SubSeq(ts, 1, Len(ts) - 1)), ts[Len(ts)])

\* CronStore.list(limit): a sorted copy, cut to Math.max(1, limit) entries
list(ts, limit) ==
  LET n == IF limit > 1 THEN limit ELSE 1
      sorted == sortByNextRunAt(ts)
  IN SubSeq(sorted, 1, IF n < Len(sorted) THEN n ELSE Len(sorted))

\* a load() that takes the document's tasks before it validates them
loadAssignFirst(ts, f) ==
  IF ~f.exists THEN [out |-> "save", tasks |-> <<>>]
  ELSE IF ~f.json THEN [out |-> "throw", tasks |-> ts]
  ELSE IF f.version # 1 \/ ~f.isList THEN [out |-> "throw", tasks |-> ts]
  ELSE IF \E k \in 1..Len(f.tasks) : normalizeTaskThrows(f.tasks[k])
  THEN [out |-> "throw", tasks |-> f.tasks]
  ELSE [out |-> "ok", tasks |-> f.tasks]

\* CronStore.load() up to its await of save() or its return.  out: "save"
\* (no file: the store is emptied and save() called), "throw", "ok"
load(ts, f) ==
  IF ~f.exists THEN [out |-> "save", tasks |-> <<>>]
  ELSE IF ~f.json THEN [out |-> "throw", tasks |-> ts]
  ELSE IF f.version # 1 \/ ~f.isList THEN [out |-> "throw", tasks |-> ts]
  ELSE IF \E k \in 1..Len(f.tasks) : normalizeTaskThrows(f.tasks[k])
  THEN [out |-> "throw", tasks |-> ts]
  ELSE [out |-> "ok", tasks |-> f.tasks]

\* let next = base + step; while (next <= nowMs) next += step;
RECURSIVE WhileNext(_, _, _)
WhileNext(next, step, nowMs) ==
  IF next <= nowMs THEN WhileNext(next + step, step, nowMs) ELSE next

\* a markRunSuccess that advances an interval task by one step, past its old
\* nextRunAt but not past the clock
markRunSuccessOneStep(ts, taskId, nowMs) ==
  LET k == get(ts, taskId)
  IN IF k = NoTask THEN [out |-> "absent", tasks |-> ts]
     ELSE LET t1 == [ts[k] EXCEPT !.lastRunAt = <<toISOString(nowMs)>>,
                                  !.lastError = <<>>,
                                  !.updatedAt = toISOString(nowMs)]
          IN IF t1.repeat.mode = "once"
             THEN [out |-> "save", tasks |-> WithoutId(ts, taskId)]
             ELSE IF ~HasEverySeconds(t1.repeat)
             THEN [out |-> "throw", tasks |-> [ts EXCEPT ![k] = t1]]
             ELSE LET next == DateParse(t1.nextRunAt) + t1.repeat.everySeconds * 1000
                  IN [out |-> "save",
                      tasks |-> [ts EXCEPT ![k] = [t1 EXCEPT !.nextRunAt = toISOString(next)]]]

\* a markRunSuccess that counts the next run of an interval task from the
\* time of the call, not from the task's nextRunAt
markRunSuccessFromNow(ts, taskId, nowMs) ==
  LET k == get(ts, taskId)
  IN IF k = NoTask THEN [out |-> "absent", tasks |-> ts]
     ELSE LET t1 == [ts[k] EXCEPT !.lastRunAt = <<toISOString(nowMs)>>,
                                  !.lastError = <<>>,
                                  !.updatedAt = toISOString(nowMs)]
          IN IF t1.repeat.mode = "once"
             THEN [out |-> "save", tasks |-> WithoutId(ts, taskId)]
             ELSE IF ~HasEverySeconds(t1.repeat)
             THEN [out |-> "throw", tasks |-> [ts EXCEPT ![k] = t1]]
             ELSE LET next == nowMs + t1.repeat.everySeconds * 1000
                  IN [out |-> "save",
                      tasks |-> [ts EXCEPT ![k] = [t1 EXCEPT !.nextRunAt = toISOString(next)]]]

\* CronStore.markRunSuccess(taskId) up to its await of save(), atIso = nowIso().
\* out: "absent" (returned at once), "save" (save() was called), "throw"
\* (new Date(NaN).toISOString() raised RangeError: a repeat without
\* everySeconds makes step NaN, the loop is skipped and next is NaN).
markRunSuccess(ts, taskId, nowMs) ==
  LET k == get(ts, taskId)
  IN IF k = NoTask THEN [out |-> "absent", tasks |-> ts]
     ELSE LET t1 == [ts[k] EXCEPT !.lastRunAt = <<toISOString(nowMs)>>,
                                  !.lastError = <<>>,
                                  !.updatedAt = toISOString(nowMs)]
          IN IF t1.repeat.mode = "once"
             THEN [out |-> "save", tasks |-> WithoutId(ts, taskId)]
             ELSE IF ~HasEverySeconds(t1.repeat)
             THEN [out |-> "throw", tasks |-> [ts EXCEPT ![k] = t1]]
             ELSE LET step == t1.repeat.everySeconds * 1000
                      base == DateParse(t1.nextRunAt)
                      next == WhileNext(base + step, step, nowMs)
                  IN [out |-> "save",
                      tasks |-> [ts EXCEPT ![k] = [t1 EXCEPT !.nextRunAt = toISOString(next)]]]

\* a markRunFailure that records the error and leaves nextRunAt alone
markRunFailureNoRetry(ts, taskId, errorText, nowMs) ==
  LET k == get(ts, taskId)
  IN IF k = NoTask THEN [out |-> "absent", tasks |-> ts]
     ELSE [out |-> "save",
           tasks |-> [ts EXCEPT ![k] = [ts[k] EXCEPT !.lastError = <<errorText>>,
                                                    !.updatedAt = toISOString(nowMs)]]]

\* a markRunFailure that counts the retry delay from the instant the task
\* was due, not from the clock
markRunFailureFromDue(ts, taskId, errorText, nowMs) ==
  LET k == get(ts, taskId)
  IN IF k = NoTask THEN [out |-> "absent", tasks |-> ts]
     ELSE [out |-> "save",
           tasks |-> [ts EXCEPT ![k] =
                        [ts[k] EXCEPT !.lastError = <<errorText>>,
                                      !.updatedAt = toISOString(nowMs),
                                      !.nextRunAt = toISOString(DateParse(@) + retryInMs)]]]

\* a markRunFailure that stamps lastRunAt as well
markRunFailureStamped(ts, taskId, errorText, nowMs) ==
  LET k == get(ts, taskId)
  IN IF k = NoTask THEN [out |-> "absent", tasks |-> ts]
     ELSE [out |-> "save",
           tasks |-> [ts EXCEPT ![k] = [ts[k] EXCEPT !.lastError = <<errorText>>,
                                                    !.lastRunAt = <<toISOString(nowMs)>>,
                                                    !.updatedAt = toISOString(nowMs),
                                                    !.nextRunAt = toISOString(nowMs + retryInMs)]]]

\* CronStore.markRunFailure(taskId, errorText) up to its await of save().
\* Every error text of the model is shorter than 2000 characters, so
\* slice(0, 2000) keeps it whole.
markRunFailure(ts, taskId, errorText, nowMs) ==
  LET k == get(ts, taskId)
  IN IF k = NoTask THEN [out |-> "absent", tasks |-> ts]
     ELSE [out |-> "save",
           tasks |-> [ts EXCEPT ![k] = [ts[k] EXCEPT !.lastError = <<errorText>>,
                                                    !.updatedAt = toISOString(nowMs),
                                                    !.nextRunAt = toISOString(nowMs + retryInMs)]]]

\* ----------------------------------------------------------------- state
VARIABLES
  now,      \* Date.now()
  nAdv,     \* how often the clock has moved (bounded by MaxAdvances)
  tasks,    \* CronStore.tasks
  file,     \* the store file: [exists, tasks]
  ready,    \* CronStore.init() has returned
  caller,   \* the store call of the gateway or of a tool that awaits save()
  nSched,   \* schedule() calls that went through, per id (see MaxReschedules)
  nWFail,   \* failed fs.writeFile calls so far (bounded by MaxWriteFail)
  enabled,  \* CronRunner opts.enabled
  tickSeconds, \* CronRunner opts.tickSeconds
  hook,     \* CronRunner opts.onTaskReply is set
  timer,    \* CronRunner.timer: 0 is null, else the period of the interval in ms
  running,  \* CronRunner.running
  tk,       \* the activations of CronRunner.tick() that are suspended at an await
  seen,     \* history: the (id, nextRunAt) pairs invoke was called for since
            \* the id was last scheduled, and whether one came twice
  retired,  \* history: the ids of once tasks that a markRunSuccess which has
            \* returned removed, and that were not scheduled since
  ret       \* history: the last call of a store method that was recorded:
            \* op, arg (the id passed), par (the parameters of schedule),
            \* n (the limit passed), st ("pending",
            \* "ok", "throw", "true", "false", "absent"), out (the tasks
            \* returned)
VARIABLES
  hb        \* the HeartbeatRunner: its opts (enabled, intervalSeconds,
            \* threadId), timer (0 is null, else the period in ms), running,
            \* act (the activations of its tick()), and for the record:
            \* dropped (a call of tick() returned at the guard)

vars == <<now, nAdv, tasks, file, ready, caller, nSched, nWFail,
          enabled, tickSeconds, hook, timer, running, tk, seen, retired, ret, hb>>

TickIds == 1..MaxTicks

\* an activation of tick(): pc (the await it is suspended at), due (the list
\* due() returned), idx (the position of the for loop), w (the content of
\* the fs.writeFile of its store call that has not settled: none or one),
\* and for the record: t0 (the clock when it began), refired (tick() was
\* called again while it was in progress), log (see runTaskInvoke)
IdleTick == [pc |-> "idle", due |-> <<>>, idx |-> 0, w |-> <<>>,
             t0 |-> 0, refired |-> FALSE, log |-> <<>>]
\* no store call has reported a result
NoRet == [op |-> "none", arg |-> "", par |-> <<>>, n |-> 0, st |-> "none", out |-> <<>>]
\* no store call of a caller is suspended
IdleCaller == [pc |-> "idle", op |-> "none", w |-> <<>>]

Active(i) == tk[i].pc # "idle"
ActiveTicks == {i \in TickIds : Active(i)}

\* the task runTask is working on in activation a
CurTask(a) == a.due[a.idx]

\* runTask(task) up to its await of invoke: the activation moves to task j of
\* its due list.  log keeps, for the pass, what happened to each task:
\* at (scheduledAt of the prompt), inv and hook (how invoke and onTaskReply
\* settled), marks (the store calls made for it, "S" markRunSuccess, "F"
\* markRunFailure, in order), rm (markRunSuccess removed the task).
runTaskInvoke(a, j) ==
  [a EXCEPT !.pc = "invoke", !.idx = j,
            !.log = Append(a.log, [id |-> a.due[j].id,
                                    at |-> DateParse(a.due[j].nextRunAt),
                                    inv |-> "pending", hook |-> "none",
                                    marks |-> <<>>, rm |-> FALSE])]

SetLog(a, field, v) == [a EXCEPT !.log[Len(a.log)][field] = v]
Mark(a, m) == [a EXCEPT !.log[Len(a.log)].marks = Append(@, m)]

\* a runner that queues a firing it could not serve and runs the pass again
loopNextQueued(ts, a) ==
  IF a.idx < Len(a.due)
  THEN [tasks |-> ts, act |-> runTaskInvoke(a, a.idx + 1), fin |-> FALSE]
  ELSE IF a.refired
  THEN [tasks |-> ts,
        act |-> runTaskInvoke([a EXCEPT !.refired = FALSE, !.log = <<>>], 1),
        fin |-> FALSE]
  ELSE [tasks |-> ts, act |-> IdleTick, fin |-> TRUE]

\* a tick without its finally block: the pass ends and running stays set
loopNextStuck(ts, a) ==
  IF a.idx < Len(a.due)
  THEN [tasks |-> ts, act |-> runTaskInvoke(a, a.idx + 1), fin |-> FALSE]
  ELSE [tasks |-> ts, act |-> IdleTick, fin |-> FALSE]

\* for (const task of due) { await this.runTask(task); } after runTask has
\* returned for the current task: the next task, or the end of the pass.
\* Result: the tasks, the activation, fin (the finally block has run).
loopNext(ts, a) ==
  IF a.idx < Len(a.due)
  THEN [tasks |-> ts, act |-> runTaskInvoke(a, a.idx + 1), fin |-> FALSE]
  ELSE [tasks |-> ts, act |-> IdleTick, fin |-> TRUE]

\* a runTask without its catch block: the error leaves runTask and ends the
\* pass in tick's catch and finally
runTaskCatchAbort(ts, a, message) == [tasks |-> ts, act |-> IdleTick, fin |-> TRUE]

\* runTask's catch block: markRunFailure(task.id, message), awaited
runTaskCatch(ts, a, message) ==
  LET r == markRunFailure(ts, CurTask(a).id, message, now)
      a1 == Mark(a, "F")
  IN IF r.out = "absent" THEN loopNext(r.tasks, a1)
     ELSE [tasks |-> r.tasks, act |-> [a1 EXCEPT !.pc = "saveF", !.w = <<r.tasks>>],
           fin |-> FALSE]

\* a runTask that calls markRunSuccess without awaiting it: the loop goes on
\* while the write is pending
runTaskSuccessNoAwait(ts, a) ==
  LET r == markRunSuccess(ts, CurTask(a).id, now)
      a1 == SetLog(Mark(a, "S"), "rm", Len(r.tasks) < Len(ts))
  IN loopNext(r.tasks, [a1 EXCEPT !.w = IF r.out = "absent" THEN <<>> ELSE <<r.tasks>>])

\* runTask after invoke and the reply hook: markRunSuccess(task.id), awaited
\* inside the try block, so what it throws goes to the catch block
runTaskSuccess(ts, a) ==
  LET r == markRunSuccess(ts, CurTask(a).id, now)
      a1 == SetLog(Mark(a, "S"), "rm", Len(r.tasks) < Len(ts))
  IN IF r.out = "absent" THEN loopNext(r.tasks, a1)
     ELSE IF r.out = "throw" THEN runTaskCatch(r.tasks, a1, "Invalid time value")
     ELSE [tasks |-> r.tasks, act |-> [a1 EXCEPT !.pc = "saveS", !.w = <<r.tasks>>],
           fin |-> FALSE]

\* history: invoke is called for the current task of activation a
Note(h, a) ==
  LET pair == <<CurTask(a).id, DateParse(CurTask(a).nextRunAt)>>
  IN [pairs |-> h.pairs \cup {pair}, dup |-> h.dup \/ pair \in h.pairs]

\* the history after a step that took activation a to a2
NoteStep(h, a, a2) ==
  IF a2.pc = "invoke" /\ (a.pc # "invoke" \/ a.idx # a2.idx) THEN Note(h, a2) ELSE h

\* the effect of a step of activation i that ends in result r of loopNext,
\* runTaskCatch or runTaskSuccess
Resume(i, r) ==
  /\ tasks' = r.tasks
  /\ tk' = [tk EXCEPT ![i] = r.act]
  /\ running' = IF r.fin THEN FALSE ELSE running
  /\ seen' = NoteStep(seen, tk[i], r.act)

\* ------------------------------------------------------ HeartbeatRunner
HbIds == 1..MaxBeats

\* an activation of HeartbeatRunner.tick(): pc (the await it is suspended
\* at: "read" is fs.readFile, "invoke" is opts.invoke), and for the record:
\* found (how the read ended), content (what it returned), inv (the
\* parameters of its calls of invoke), err (logger.error was called in its
\* catch block), esc (an error left tick())
IdleBeat == [pc |-> "idle", found |-> "none", content |-> "", inv |-> <<>>,
             err |-> FALSE, esc |-> FALSE]

\* new HeartbeatRunner(opts)
HbNew(en, secs, thread) ==
  [enabled |-> en, intervalSeconds |-> secs, threadId |-> thread, timer |-> 0,
   running |-> FALSE, act |-> [i \in HbIds |-> IdleBeat], dropped |-> FALSE]
\* the heartbeat of a gateway whose config leaves it off
HbOff == HbNew(FALSE, 300, "heartbeat")

\* the first line of the text a heartbeat sends
Preamble == "[HEARTBEAT] Execute according to HEARTBEAT.md instructions."
\* [preamble, "", trimmed].join("\n"), as the lines of the text
heartbeatText(trimmed) == <<Preamble, "", trimmed>>

hbEmptyNever(trimmed) == FALSE

\* if (!trimmed)
hbEmpty(trimmed) == trimmed = ""

hbTickBusyNoGuard(h) == FALSE

hbTickBusyShared(h) == h.running \/ running

\* if (this.running) return;
hbTickBusy(h) == h.running

hbCatchRethrow(a) == [a EXCEPT !.esc = TRUE]

\* catch (err) { logger.error("Heartbeat tick failed", ...) }
hbCatch(a) == [a EXCEPT !.err = TRUE]

\* the lowest activation slot of the heartbeat that is free
HbFree(h) ==
  CHOOSE i \in HbIds : h.act[i].pc = "idle" /\ \A j \in 1..(i - 1) : h.act[j].pc # "idle"

\* HeartbeatRunner.tick() from its call to the await of fs.readFile
hbTick(h) ==
  IF hbTickBusy(h)
  THEN [h EXCEPT !.dropped = TRUE]
  ELSE [h EXCEPT !.running = TRUE, !.act[HbFree(h)] = [IdleBeat EXCEPT !.pc = "read"]]

\* tick() returns with a as the record of activation i:
\* finally { this.running = false }
hbEnd(h, i, a) ==
  [h EXCEPT !.running = FALSE, !.act[i] = [a EXCEPT !.pc = "idle"]]

\* a call of tick() can be taken: it returns at the guard or has a slot
HbRoom(h) ==
  IF hbTickBusy(h) THEN TRUE ELSE \E i \in HbIds : h.act[i].pc = "idle"

\* Math.max(10, this.opts.intervalSeconds) * 1000
hbIntervalMs(secs) == (IF secs > 10 THEN secs ELSE 10) * 1000

\* HeartbeatRunner.start()
HbStart ==
  /\ IF ~hb.enabled \/ hb.timer # 0
     THEN UNCHANGED hb
     ELSE LET intervalMs == hbIntervalMs(hb.intervalSeconds)
              armed == [hb EXCEPT !.timer = intervalMs]
          IN HbRoom(armed) /\ hb' = hbTick(armed)
  /\ UNCHANGED <<now, nAdv, tasks, file, ready, caller, nSched, nWFail, enabled, tickSeconds, hook,
                 timer, running, tk, seen, retired, ret>>

\* HeartbeatRunner.stop()
HbStop ==
  /\ hb' = IF hb.timer = 0 THEN hb ELSE [hb EXCEPT !.timer = 0]
  /\ UNCHANGED <<now, nAdv, tasks, file, ready, caller, nSched, nWFail, enabled, tickSeconds, hook,
                 timer, running, tk, seen, retired, ret>>

\* the setInterval callback of the heartbeat: void this.tick()
HbTimerFire ==
  /\ hb.timer # 0
  /\ HbRoom(hb)
  /\ hb' = hbTick(hb)
  /\ UNCHANGED <<now, nAdv, tasks, file, ready, caller, nSched, nWFail, enabled, tickSeconds, hook,
                 timer, running, tk, seen, retired, ret>>

\* what the instruction file can hold: nothing, white space, a text, a
\* text with white space around it
HbContents == {"", " ", "do", " do "}

\* fs.readFile resolves with content c
HbReadResolve(i, c) ==
  /\ hb.act[i].pc = "read"
  /\ LET a == [hb.act[i] EXCEPT !.found = "content", !.content = c]
         trimmed == trim(c)
     IN hb' = IF hbEmpty(trimmed)
              THEN hbEnd(hb, i, a)
              ELSE [hb EXCEPT !.act[i] =
                      [a EXCEPT !.pc = "invoke",
                                !.inv = Append(a.inv, [threadId |-> hb.threadId,
                                                       text |-> heartbeatText(trimmed)])]]
  /\ UNCHANGED <<now, nAdv, tasks, file, ready, caller, nSched, nWFail, enabled, tickSeconds, hook,
                 timer, running, tk, seen, retired, ret>>

\* the error codes fs.readFile rejects with
HbReadErrors == {"ENOENT", "EACCES"}

\* fs.readFile rejects with an error whose code is code
HbReadReject(i, code) ==
  /\ hb.act[i].pc = "read"
  /\ hb' = IF code = "ENOENT"
           THEN hbEnd(hb, i, [hb.act[i] EXCEPT !.found = "missing"])
           ELSE hbEnd(hb, i, hbCatch([hb.act[i] EXCEPT !.found = "unreadable"]))
  /\ UNCHANGED <<now, nAdv, tasks, file, ready, caller, nSched, nWFail, enabled, tickSeconds, hook,
                 timer, running, tk, seen, retired, ret>>

\* opts.invoke of the heartbeat resolves
HbInvokeResolve(i) ==
  /\ hb.act[i].pc = "invoke"
  /\ hb' = hbEnd(hb, i, hb.act[i])
  /\ UNCHANGED <<now, nAdv, tasks, file, ready, caller, nSched, nWFail, enabled, tickSeconds, hook,
                 timer, running, tk, seen, retired, ret>>

\* opts.invoke of the heartbeat rejects
HbInvokeReject(i) ==
  /\ hb.act[i].pc = "invoke"
  /\ hb' = hbEnd(hb, i, hbCatch(hb.act[i]))
  /\ UNCHANGED <<now, nAdv, tasks, file, ready, caller, nSched, nWFail, enabled, tickSeconds, hook,
                 timer, running, tk, seen, retired, ret>>

\* ------------------------------------------------------------ CronRunner
tickBusyNoGuard == FALSE

\* if (this.running) return;
tickBusy == running

\* the lowest activation slot that is free
FreeTick == CHOOSE i \in TickIds : ~Active(i) /\ \A j \in 1..(i - 1) : Active(j)

\* CronRunner.tick() from its call to its first await (or to its return)
tick ==
  LET refire == [i \in TickIds |-> IF Active(i) THEN [tk[i] EXCEPT !.refired = TRUE] ELSE tk[i]]
  IN IF tickBusy
     THEN /\ tk' = refire
          /\ UNCHANGED <<tasks, running, seen>>
     ELSE LET d == due(tasks, now)
          IN IF d = <<>>
             THEN /\ running' = FALSE
                  /\ tk' = refire
                  /\ UNCHANGED <<tasks, seen>>
             ELSE /\ \E i \in TickIds : ~Active(i)
                  /\ LET a == runTaskInvoke([IdleTick EXCEPT !.due = d, !.t0 = now], 1)
                     IN /\ tk' = [refire EXCEPT ![FreeTick] = a]
                        /\ seen' = Note(seen, a)
                  /\ running' = TRUE
                  /\ UNCHANGED tasks

\* Math.max(5, this.opts.tickSeconds) * 1000
everyMs(secs) == (IF secs > MinTickSeconds THEN secs ELSE MinTickSeconds) * 1000

startSkipsDisabled == ~enabled

\* if (!this.opts.enabled) return; if (this.timer) return;
startSkips == ~enabled \/ timer # 0

\* CronRunner.start()
Start ==
  /\ ready
  /\ IF startSkips
     THEN UNCHANGED <<timer, tasks, running, tk, seen>>
     ELSE timer' = everyMs(tickSeconds) /\ tick
  /\ UNCHANGED <<hb, ret, now, nAdv, file, ready, caller, nSched, nWFail, enabled, tickSeconds, hook, retired>>

\* a stop() that also drops the pass in progress
StopAbort ==
  /\ timer' = 0
  /\ tk' = [i \in TickIds |-> IdleTick]
  /\ running' = FALSE
  /\ UNCHANGED <<hb, ret, now, nAdv, tasks, file, ready, caller, nSched, nWFail,
                 enabled, tickSeconds, hook, seen, retired>>

\* CronRunner.stop()
Stop ==
  /\ timer' = 0
  /\ UNCHANGED <<hb, ret, now, nAdv, tasks, file, ready, caller, nSched, nWFail,
                 enabled, tickSeconds, hook, running, tk, seen, retired>>

\* the setInterval callback: void this.tick()
TimerFire ==
  /\ timer # 0
  /\ tick
  /\ UNCHANGED <<hb, ret, now, nAdv, file, ready, caller, nSched, nWFail, enabled, tickSeconds, hook, timer, retired>>

\* opts.invoke resolves
InvokeResolve(i) ==
  /\ tk[i].pc = "invoke"
  /\ LET a == SetLog(tk[i], "inv", "ok")
     IN IF hook
        THEN /\ tk' = [tk EXCEPT ![i] = [a EXCEPT !.pc = "reply"]]
             /\ UNCHANGED <<tasks, running, seen>>
        ELSE Resume(i, runTaskSuccess(tasks, a))
  /\ UNCHANGED <<hb, ret, now, nAdv, file, ready, caller, nSched, nWFail, enabled, tickSeconds, hook, timer, retired>>

\* opts.invoke rejects
InvokeReject(i) ==
  /\ tk[i].pc = "invoke"
  /\ Resume(i, runTaskCatch(tasks, SetLog(tk[i], "inv", "err"), "invoke failed"))
  /\ UNCHANGED <<hb, ret, now, nAdv, file, ready, caller, nSched, nWFail, enabled, tickSeconds, hook, timer, retired>>

\* opts.onTaskReply resolves
ReplyResolve(i) ==
  /\ tk[i].pc = "reply"
  /\ Resume(i, runTaskSuccess(tasks, SetLog(tk[i], "hook", "ok")))
  /\ UNCHANGED <<hb, ret, now, nAdv, file, ready, caller, nSched, nWFail, enabled, tickSeconds, hook, timer, retired>>

\* opts.onTaskReply rejects: the inner catch logs a warning
ReplyReject(i) ==
  /\ tk[i].pc = "reply"
  /\ Resume(i, runTaskSuccess(tasks, SetLog(tk[i], "hook", "err")))
  /\ UNCHANGED <<hb, ret, now, nAdv, file, ready, caller, nSched, nWFail, enabled, tickSeconds, hook, timer, retired>>

\* a save() whose document leaves out the lastError of the tasks
saveWithoutError(content) ==
  Doc([k \in 1..Len(content) |-> [content[k] EXCEPT !.lastError = <<>>]])

\* CronStore.save(): what fs.writeFile leaves in the file when it succeeds
save(content) == Doc(content)

\* the fs.writeFile of the runner's markRunSuccess / markRunFailure succeeds
WriteResolve(i) ==
  /\ tk[i].pc \in {"saveS", "saveF"}
  /\ file' = save(Head(tk[i].w))
  /\ retired' = IF tk[i].pc = "saveS" /\ tk[i].log[Len(tk[i].log)].rm
                 THEN retired \cup {CurTask(tk[i]).id} ELSE retired
  /\ Resume(i, loopNext(tasks, [tk[i] EXCEPT !.w = Tail(@)]))
  /\ UNCHANGED <<hb, ret, now, nAdv, ready, caller, nSched, nWFail, enabled, tickSeconds, hook, timer>>

\* the fs.writeFile of the runner's markRunSuccess / markRunFailure fails:
\* out of markRunSuccess the error reaches runTask's catch block, out of
\* markRunFailure it leaves runTask and reaches tick's catch and finally
WriteReject(i) ==
  /\ tk[i].pc \in {"saveS", "saveF"}
  /\ nWFail < MaxWriteFail
  /\ nWFail' = nWFail + 1
  /\ IF tk[i].pc = "saveS"
     THEN Resume(i, runTaskCatch(tasks, [tk[i] EXCEPT !.w = Tail(@)], "write failed"))
     ELSE /\ tk' = [tk EXCEPT ![i] = IdleTick]
          /\ running' = FALSE
          /\ UNCHANGED <<tasks, seen>>
  /\ UNCHANGED <<hb, ret, now, nAdv, file, ready, caller, nSched, enabled, tickSeconds, hook, timer, retired>>

\* ------------------------------------------------- callers of the store
\* The ids a caller passes, out of the set I: the id of a stored task, or a
\* new one.  Ids are opaque, so a new id is always the first unused one.
Unused(I) == {id \in I : get(tasks, id) = NoTask}
NewId(I) == CHOOSE id \in Unused(I) : \A other \in Unused(I) : id = other \/ <<id, other>> \in IdOrder
IdChoice(I) == (I \ Unused(I)) \cup (IF Unused(I) # {} THEN {NewId(I)} ELSE {})

\* The calls of schedule() the model makes.  runAt comes in the "Z" form, in
\* a form with a zone offset (01:00:00+01:00, the same instant as 00:00:00Z)
\* and as text that is no date; everySeconds comes at the minimum and below;
\* a daily_local task comes as cron_schedule_local makes it, with runAt the
\* next occurrence of its local time.
Param(runAt, repeat, en) ==
  [message |-> "m", threadId |-> "t", runAt |-> runAt, repeat |-> repeat, enabled |-> en]
ScheduleParams ==
  { Param(IsoZ(0), Once, TRUE),
    Param(IsoOff(3600000, 60), Interval(MinEverySeconds), TRUE),
    Param(nextLocalTimeUtcIso(DailyLocal.timezone, DailyLocal.localTime, now).iso,
          DailyLocal, TRUE),
    Param(IsoZ(0), Once, FALSE),
    Param(IsoZ(0), Interval(MinEverySeconds - 1), TRUE),
    Param(BadIso, Once, TRUE) }
WithId(p, id) ==
  [id |-> id, message |-> p.message, threadId |-> p.threadId, runAt |-> p.runAt,
   repeat |-> p.repeat, enabled |-> p.enabled]
ScheduleInputs(I) == {WithId(p, id) : p \in ScheduleParams, id \in IdChoice(I)}

\* CronStore.init() -> load() when the store file does not exist (ENOENT)
Load ==
  /\ ~ready
  /\ caller.pc = "idle"
  /\ ~file.exists
  /\ tasks' = <<>>
  /\ caller' = [pc |-> "save", op |-> "load", w |-> <<>>]
  /\ UNCHANGED <<hb, ret, now, nAdv, file, ready, nSched, nWFail, enabled, tickSeconds, hook, timer,
                 running, tk, seen, retired>>

\* the schedule calls so far that named an id scheduled before
RECURSIVE SumOver(_, _)
SumOver(f, S) ==
  IF S = {} THEN 0
  ELSE LET x == CHOOSE y \in S : TRUE IN f[x] + SumOver(f, S \ {x})
Reschedules ==
  SumOver([id \in Ids |-> IF nSched[id] > 0 THEN nSched[id] - 1 ELSE 0], Ids)

\* a caller's store.schedule(params), up to its await of save(); a call
\* that throws has changed nothing
Schedule(p) ==
  /\ ready
  /\ caller.pc = "idle"
  /\ LET r == schedule(tasks, p, now)
     IN IF r.throws
        THEN UNCHANGED <<tasks, caller, seen, retired, nSched>>
        ELSE /\ nSched[p.id] = 0 \/ Reschedules < MaxReschedules
             /\ nSched' = [nSched EXCEPT ![p.id] = @ + 1]
             /\ tasks' = r.tasks
             /\ caller' = [pc |-> "save", op |-> "schedule", w |-> r.tasks]
             /\ seen' = [seen EXCEPT !.pairs = {q \in @ : q[1] # p.id}]
             /\ retired' = retired \ {p.id}
  /\ UNCHANGED <<hb, ret, now, nAdv, file, ready, nWFail, enabled, tickSeconds, hook, timer, running, tk>>

\* a caller's store.cancel(id), up to its await of save() or its return
Cancel(id) ==
  /\ ready
  /\ caller.pc = "idle"
  /\ LET r == cancel(tasks, id)
     IN IF ~r.found
        THEN UNCHANGED <<tasks, caller>>
        ELSE /\ tasks' = r.tasks
             /\ caller' = [pc |-> "save", op |-> "cancel", w |-> r.tasks]
  /\ UNCHANGED <<hb, ret, now, nAdv, file, ready, nSched, nWFail, enabled, tickSeconds, hook, timer,
                 running, tk, seen, retired>>

\* the caller's fs.writeFile succeeds and its store call returns
CallerWriteResolve ==
  /\ caller.pc = "save"
  /\ file' = save(caller.w)
  /\ caller' = IdleCaller
  /\ ready' = (ready \/ caller.op = "load")
  /\ UNCHANGED <<hb, ret, now, nAdv, tasks, nSched, nWFail, enabled, tickSeconds, hook, timer, running, tk, seen, retired>>

\* the caller's fs.writeFile fails and its store call throws
CallerWriteReject ==
  /\ caller.pc = "save"
  /\ nWFail < MaxWriteFail
  /\ nWFail' = nWFail + 1
  /\ caller' = IdleCaller
  /\ UNCHANGED <<hb, ret, now, nAdv, tasks, file, ready, nSched, enabled, tickSeconds, hook, timer,
                 running, tk, seen, retired>>

\* the wall clock moves on
AdvanceClock(d) ==
  /\ nAdv < MaxAdvances
  /\ nAdv' = nAdv + 1
  /\ now' = now + d
  /\ UNCHANGED <<hb, ret, tasks, file, ready, caller, nSched, nWFail, enabled, tickSeconds, hook, timer,
                 running, tk, seen, retired>>

\* new CronStore(path), new CronRunner(opts): nothing loaded, nothing armed
Init ==
  /\ now = 0
  /\ nAdv = 0
  /\ tasks = <<>>
  /\ file = NoFile
  /\ ready = FALSE
  /\ caller = IdleCaller
  /\ nSched = [id \in Ids |-> 0]
  /\ nWFail = 0
  /\ enabled \in BOOLEAN
  /\ hook \in BOOLEAN
  /\ tickSeconds = DefaultTickSeconds
  /\ timer = 0
  /\ running = FALSE
  /\ tk = [i \in TickIds |-> IdleTick]
  /\ seen = [pairs |-> {}, dup |-> FALSE]
  /\ retired = {}
  /\ ret = NoRet
  /\ hb = HbOff

\* the whole program around one task id: every call, every settlement,
\* failing writes, the clock
Next ==
  \/ Load
  \/ Start
  \/ Stop
  \/ TimerFire
  \/ \E i \in TickIds : InvokeResolve(i)
  \/ \E i \in TickIds : InvokeReject(i)
  \/ \E i \in TickIds : ReplyResolve(i)
  \/ \E i \in TickIds : ReplyReject(i)
  \/ \E i \in TickIds : WriteResolve(i)
  \/ \E i \in TickIds : WriteReject(i)
  \/ \E p \in ScheduleInputs(OneId) : Schedule(p)
  \/ \E id \in OneId : Cancel(id)
  \/ CallerWriteResolve
  \/ CallerWriteReject
  \/ \E d \in Delays : AdvanceClock(d)

Spec == Init /\ [][Next]_vars

\* passes over due sets of up to two tasks
NextPass ==
  \/ Load
  \/ Start
  \/ Stop
  \/ TimerFire
  \/ \E i \in TickIds : InvokeResolve(i)
  \/ \E i \in TickIds : InvokeReject(i)
  \/ \E i \in TickIds : ReplyResolve(i)
  \/ \E i \in TickIds : ReplyReject(i)
  \/ \E i \in TickIds : WriteResolve(i)
  \/ \E i \in TickIds : WriteReject(i)
  \/ \E p \in ScheduleInputs(Ids) : Schedule(p)
  \/ \E id \in Ids : Cancel(id)
  \/ CallerWriteResolve

SpecPass == Init /\ [][NextPass]_vars

\* ------------------------------------------------ the store on its own
\* The store as an object under a sequence of calls of its public methods,
\* one at a time, on a store file that a process finds when it starts: no
\* file, a document the store wrote, a document written elsewhere (its
\* texts are valid but not in the form toISOString gives), or a bad one.
LimitChoice == {0, 1, 100}
ForeignTask(id, next) ==
  [id |-> id, message |-> "m", threadId |-> "t", runAt |-> next, nextRunAt |-> next,
   repeat |-> Once, enabled |-> TRUE, createdAt |-> IsoZ(0), updatedAt |-> IsoZ(0),
   lastRunAt |-> <<>>, lastError |-> <<>>]
\* "a" is due at 01:00:00+01:00 (the instant 0); "b" runs every 5 s, has
\* run before and is due at 00:01:00Z
ForeignDoc ==
  Doc(<<ForeignTask("a", IsoOff(3600000, 60)),
        [ForeignTask("b", IsoZ(60000)) EXCEPT !.repeat = Interval(MinEverySeconds),
                                              !.lastRunAt = <<IsoZ(0)>>]>>)
GoodDocs == {Doc(<<>>), ForeignDoc}
BadDocs ==
  { [Doc(<<>>) EXCEPT !.json = FALSE],
    [ForeignDoc EXCEPT !.version = 2],
    [Doc(<<>>) EXCEPT !.isList = FALSE],
    Doc(<<ForeignTask("a", IsoZ(0)), ForeignTask("b", BadIso)>>),
    Doc(<<[ForeignTask("a", IsoZ(0)) EXCEPT !.lastRunAt = <<BadIso>>]>>),
    Doc(<<ForeignTask("a", IsoZ(0)),
          [ForeignTask("b", IsoZ(0)) EXCEPT !.repeat = Interval(MinEverySeconds - 1)]>>) }
Docs == {NoFile} \cup GoodDocs \cup BadDocs

\* The schedule() calls on the store on its own: the repeat kinds, a
\* disabled task with texts to trim, an interval (7 s) that does not divide
\* the retry delay, and the bad inputs: everySeconds below
\* the minimum and with a fraction, a runAt that is no date.
StoreParams ==
  { Param(IsoZ(0), Once, TRUE),
    Param(IsoOff(3600000, 60), Interval(MinEverySeconds), TRUE),
    Param(nextLocalTimeUtcIso(DailyLocal.timezone, DailyLocal.localTime, now).iso,
          DailyLocal, TRUE),
    [Param(IsoZ(60000), Once, FALSE) EXCEPT !.message = " n ", !.threadId = " n "],
    Param(IsoZ(0), Interval(MinEverySeconds - 1), TRUE),
    Param(IsoZ(0), Interval(7), TRUE),
    Param(IsoZ(0), HalfSeconds(7), TRUE),
    Param(BadIso, Once, TRUE) }
StoreInputs == {WithId(p, id) : p \in StoreParams, id \in IdChoice(Ids)}

Called(op, arg, n, st, out) ==
  [op |-> op, arg |-> arg, par |-> <<>>, n |-> n, st |-> st, out |-> out]

\* CronStore.init(): load(), once per process
StoreLoad ==
  /\ ~ready
  /\ caller.pc = "idle"
  /\ ret = NoRet
  /\ LET r == load(tasks, file)
     IN /\ tasks' = r.tasks
        /\ ready' = (r.out = "ok")
        /\ caller' = IF r.out = "save" THEN [pc |-> "save", op |-> "load", w |-> r.tasks]
                      ELSE caller
        /\ ret' = Called("load", "", 0, IF r.out = "save" THEN "pending" ELSE r.out, <<>>)
  /\ UNCHANGED <<hb, now, nAdv, file, nSched, nWFail, enabled, tickSeconds, hook, timer, running, tk,
                 seen, retired>>

\* CronStore.schedule(params) up to its await of save() or its throw
StoreSchedule(p) ==
  /\ ready
  /\ caller.pc = "idle"
  /\ LET r == schedule(tasks, p, now)
     IN IF r.throws
        THEN /\ ret' = [Called("schedule", p.id, 0, "throw", <<>>) EXCEPT !.par = <<p>>]
             /\ UNCHANGED <<tasks, caller, nSched>>
        ELSE /\ SumOver(nSched, Ids) < MaxStoreSchedules
             /\ nSched' = [nSched EXCEPT ![p.id] = @ + 1]
             /\ tasks' = r.tasks
             /\ caller' = [pc |-> "save", op |-> "schedule", w |-> r.tasks]
             /\ ret' = [Called("schedule", p.id, 0, "pending",
                               <<r.tasks[get(r.tasks, p.id)]>>) EXCEPT !.par = <<p>>]
  /\ UNCHANGED <<hb, now, nAdv, file, ready, nWFail, enabled, tickSeconds, hook, timer, running,
                 tk, seen, retired>>

\* CronStore.cancel(id) up to its await of save() or its return
StoreCancel(id) ==
  /\ ready
  /\ caller.pc = "idle"
  /\ LET r == cancel(tasks, id)
     IN IF ~r.found
        THEN /\ ret' = Called("cancel", id, 0, "false", <<>>)
             /\ UNCHANGED <<tasks, caller>>
        ELSE /\ tasks' = r.tasks
             /\ caller' = [pc |-> "save", op |-> "cancel", w |-> r.tasks]
             /\ ret' = Called("cancel", id, 0, "pending", <<>>)
  /\ UNCHANGED <<hb, now, nAdv, file, ready, nSched, nWFail, enabled, tickSeconds, hook, timer, running,
                 tk, seen, retired>>

\* the outcome of a markRunSuccess / markRunFailure call r as a store call
StoreMarked(op, id, r) ==
  /\ tasks' = r.tasks
  /\ caller' = IF r.out = "save" THEN [pc |-> "save", op |-> op, w |-> r.tasks] ELSE caller
  /\ ret' = Called(op, id, 0, IF r.out = "save" THEN "pending" ELSE r.out, <<>>)

\* the task that is the subject of a run: stored and due, as the runner
\* found it, or gone since
Runnable(id) == IF get(tasks, id) = NoTask THEN TRUE ELSE IsDue(tasks[get(tasks, id)], now)

\* CronStore.markRunSuccess(id) up to its await of save(), its return or
\* its throw
StoreMarkRunSuccess(id) ==
  /\ ready
  /\ caller.pc = "idle"
  /\ Runnable(id)
  /\ StoreMarked("markRunSuccess", id, markRunSuccess(tasks, id, now))
  /\ UNCHANGED <<hb, now, nAdv, file, ready, nSched, nWFail, enabled, tickSeconds, hook, timer, running,
                 tk, seen, retired>>

\* CronStore.markRunFailure(id, "boom") up to its await of save() or its return
StoreMarkRunFailure(id) ==
  /\ ready
  /\ caller.pc = "idle"
  /\ Runnable(id)
  /\ StoreMarked("markRunFailure", id, markRunFailure(tasks, id, "boom", now))
  /\ UNCHANGED <<hb, now, nAdv, file, ready, nSched, nWFail, enabled, tickSeconds, hook, timer, running,
                 tk, seen, retired>>

\* CronStore.list(limit), called while no other call is suspended
StoreList(limit) ==
  /\ ready
  /\ caller.pc = "idle"
  /\ ret' = Called("list", "", limit, "ok", list(tasks, limit))
  /\ UNCHANGED <<hb, now, nAdv, tasks, file, ready, caller, nSched, nWFail, enabled, tickSeconds, hook,
                 timer, running, tk, seen, retired>>

\* the fs.writeFile of the store call succeeds and the call returns
StoreWriteResolve ==
  /\ caller.pc = "save"
  /\ file' = save(caller.w)
  /\ caller' = IdleCaller
  /\ ready' = (ready \/ caller.op = "load")
  /\ ret' = [ret EXCEPT !.st = IF caller.op = "cancel" THEN "true" ELSE "ok"]
  /\ UNCHANGED <<hb, now, nAdv, tasks, nSched, nWFail, enabled, tickSeconds, hook, timer, running, tk,
                 seen, retired>>

\* a process starts on the store file it finds; the runner stays off
InitStore ==
  /\ now = 0
  /\ nAdv = 0
  /\ tasks = <<>>
  /\ file \in Docs
  /\ ready = FALSE
  /\ caller = IdleCaller
  /\ nSched = [id \in Ids |-> 0]
  /\ nWFail = 0
  /\ enabled = FALSE
  /\ hook = FALSE
  /\ tickSeconds = DefaultTickSeconds
  /\ timer = 0
  /\ running = FALSE
  /\ tk = [i \in TickIds |-> IdleTick]
  /\ seen = [pairs |-> {}, dup |-> FALSE]
  /\ retired = {}
  /\ ret = NoRet
  /\ hb = HbOff

NextStore ==
  \/ StoreLoad
  \/ \E p \in StoreInputs : StoreSchedule(p)
  \/ \E id \in Ids : StoreCancel(id)
  \/ \E id \in Ids : StoreMarkRunSuccess(id)
  \/ \E id \in Ids : StoreMarkRunFailure(id)
  \/ \E limit \in LimitChoice : StoreList(limit)
  \/ StoreWriteResolve
  \/ \E d \in Delays : AdvanceClock(d)

SpecStore == InitStore /\ [][NextStore]_vars

\* ------------------------------------------- the time zone functions
\* zonedDateTimeToUtcMs and nextLocalTimeUtcIso applied to what
\* cron_schedule_local can pass: a zone, a local date, a local time HH:mm
\* around the hours in which clocks change, and the instant to count from.
LocalTimes ==
  {LocalTimeText(h, m) : h \in {0, 1, 2, 3}, m \in {0, 30}}
    \cup {LocalTimeText(12, 0), LocalTimeText(23, 30)}
HalfHourMs == 30 * MinuteMs
Instants == {d * DayMs + k * HalfHourMs : d \in 0..MaxDay, k \in 0..47}
ZoneQueries ==
  {[tz |-> tz, date |-> d, time |-> t, fromMs |-> 0] :
     tz \in Zones, d \in 0..MaxDay, t \in LocalTimes}
  \cup {[tz |-> tz, date |-> 0, time |-> t, fromMs |-> f] :
     tz \in Zones, t \in LocalTimes, f \in Instants}
\* the arguments, before either function is called on them
Asked(q) == [op |-> "ask", arg |-> q.tz, par |-> <<q>>, n |-> 0, st |-> "none", out |-> <<>>]

\* localDateTimeToUtcIso -> zonedDateTimeToUtcMs({timezone, date, time})
ZonedToUtc ==
  /\ ret.par # <<>>
  /\ LET q == ret.par[1]
         r == zonedDateTimeToUtcMs(q.tz, q.date, parseLocalTime(q.time))
     IN ret' = [op |-> "zonedDateTimeToUtcMs", arg |-> q.tz, par |-> <<q>>,
                n |-> IF r.throws THEN 0 ELSE r.ms,
                st |-> IF r.throws THEN "throw" ELSE "ok",
                out |-> <<>>]
  /\ UNCHANGED <<hb, now, nAdv, tasks, file, ready, caller, nSched, nWFail, enabled, tickSeconds, hook,
                 timer, running, tk, seen, retired>>

\* nextLocalTimeUtcIso({timezone, localTime, fromMs})
NextLocal ==
  /\ ret.par # <<>>
  /\ LET q == ret.par[1]
         r == nextLocalTimeUtcIso(q.tz, q.time, q.fromMs)
     IN ret' = [op |-> "nextLocalTimeUtcIso", arg |-> q.tz, par |-> <<q>>,
                n |-> IF r.throws THEN 0 ELSE DateParse(r.iso),
                st |-> IF r.throws THEN "throw" ELSE "ok",
                out |-> IF r.throws THEN <<>> ELSE <<r.iso>>]
  /\ UNCHANGED <<hb, now, nAdv, tasks, file, ready, caller, nSched, nWFail, enabled, tickSeconds, hook,
                 timer, running, tk, seen, retired>>

InitZone ==
  /\ now = 0
  /\ nAdv = 0
  /\ tasks = <<>>
  /\ file = NoFile
  /\ ready = FALSE
  /\ caller = IdleCaller
  /\ nSched = [id \in Ids |-> 0]
  /\ nWFail = 0
  /\ enabled = FALSE
  /\ hook = FALSE
  /\ tickSeconds = DefaultTickSeconds
  /\ timer = 0
  /\ running = FALSE
  /\ tk = [i \in TickIds |-> IdleTick]
  /\ seen = [pairs |-> {}, dup |-> FALSE]
  /\ retired = {}
  /\ ret \in {Asked(q) : q \in ZoneQueries}
  /\ hb = HbOff

NextZone ==
  \/ ZonedToUtc
  \/ NextLocal

SpecZone == InitZone /\ [][NextZone]_vars

\* --------------------------------- the scheduler next to the heartbeat
\* The gateway loop with both pollers: the heartbeat with its instruction
\* file, and the runner on a store file that holds one task that is due.
HbIntervals == {5, 300}
BeatDoc == Doc(<<ForeignTask("a", IsoZ(0))>>)

InitBeat ==
  /\ now = 0
  /\ nAdv = 0
  /\ tasks = <<>>
  /\ file = BeatDoc
  /\ ready = FALSE
  /\ caller = IdleCaller
  /\ nSched = [id \in Ids |-> 0]
  /\ nWFail = 0
  /\ enabled = TRUE
  /\ hook = FALSE
  /\ tickSeconds = DefaultTickSeconds
  /\ timer = 0
  /\ running = FALSE
  /\ tk = [i \in TickIds |-> IdleTick]
  /\ seen = [pairs |-> {}, dup |-> FALSE]
  /\ retired = {}
  /\ ret = NoRet
  /\ hb \in {HbNew(en, secs, "heartbeat") : en \in BOOLEAN, secs \in HbIntervals}

NextBeat ==
  \/ HbStart
  \/ HbStop
  \/ HbTimerFire
  \/ \E i \in HbIds, c \in HbContents : HbReadResolve(i, c)
  \/ \E i \in HbIds, code \in HbReadErrors : HbReadReject(i, code)
  \/ \E i \in HbIds : HbInvokeResolve(i)
  \/ \E i \in HbIds : HbInvokeReject(i)
  \/ StoreLoad
  \/ Start
  \/ Stop
  \/ TimerFire
  \/ \E i \in TickIds : InvokeResolve(i)
  \/ \E i \in TickIds : InvokeReject(i)
  \/ \E i \in TickIds : WriteResolve(i)

SpecBeat == InitBeat /\ [][NextBeat]_vars

\* ------------------------------------------- the runner that keeps going
\* The runner on a store file with a task that is due and one that comes
\* due when the clock moves; the timer is not stopped, no write fails, a
\* caller may cancel.  The timer fires again and again, every invoke
\* settles and every write of the runner completes.
InitLive ==
  /\ now = 0
  /\ nAdv = 0
  /\ tasks = <<>>
  /\ file = ForeignDoc
  /\ ready = FALSE
  /\ caller = IdleCaller
  /\ nSched = [id \in Ids |-> 0]
  /\ nWFail = 0
  /\ enabled = TRUE
  /\ hook = FALSE
  /\ tickSeconds = DefaultTickSeconds
  /\ timer = 0
  /\ running = FALSE
  /\ tk = [i \in TickIds |-> IdleTick]
  /\ seen = [pairs |-> {}, dup |-> FALSE]
  /\ retired = {}
  /\ ret = NoRet
  /\ hb = HbOff

NextLive ==
  \/ StoreLoad
  \/ Start
  \/ TimerFire
  \/ \E i \in TickIds : InvokeResolve(i)
  \/ \E i \in TickIds : InvokeReject(i)
  \/ \E i \in TickIds : WriteResolve(i)
  \/ \E id \in Ids : Cancel(id)
  \/ CallerWriteResolve
  \/ \E d \in Delays : AdvanceClock(d)

FairLive ==
  /\ WF_vars(TimerFire)
  /\ \A i \in TickIds : WF_vars(InvokeResolve(i) \/ InvokeReject(i))
  /\ \A i \in TickIds : WF_vars(WriteResolve(i))

SpecLive == InitLive /\ [][NextLive]_vars /\ FairLive

\* ------------------------------------------------- starting and stopping
\* The runner, enabled or not, with a tickSeconds below the minimum, at it
\* and above it, on a store file with a task that is due; start() and
\* stop() are called at any time.
TickSecondsChoice == {1, MinTickSeconds, DefaultTickSeconds}

InitStart ==
  /\ now = 0
  /\ nAdv = 0
  /\ tasks = <<>>
  /\ file = ForeignDoc
  /\ ready = FALSE
  /\ caller = IdleCaller
  /\ nSched = [id \in Ids |-> 0]
  /\ nWFail = 0
  /\ enabled \in BOOLEAN
  /\ tickSeconds \in TickSecondsChoice
  /\ hook = FALSE
  /\ timer = 0
  /\ running = FALSE
  /\ tk = [i \in TickIds |-> IdleTick]
  /\ seen = [pairs |-> {}, dup |-> FALSE]
  /\ retired = {}
  /\ ret = NoRet
  /\ hb = HbOff

NextStart ==
  \/ StoreLoad
  \/ Start
  \/ Stop
  \/ TimerFire
  \/ \E i \in TickIds : InvokeResolve(i)
  \/ \E i \in TickIds : InvokeReject(i)
  \/ \E i \in TickIds : WriteResolve(i)
  \/ \E d \in Delays : AdvanceClock(d)

SpecStart == InitStart /\ [][NextStart]_vars

\* ------------------------------------------- rescheduling during a pass
\* The runner on a store file with a task that is due and one that comes
\* due later, while callers schedule the stored ids again with a runAt in
\* the future, as a once task or as an interval task.
ReschedParams ==
  { Param(IsoZ(120000), Once, TRUE),
    Param(IsoZ(120000), Interval(MinEverySeconds), TRUE) }
ReschedInputs == {WithId(p, id) : p \in ReschedParams, id \in Ids}

NextResched ==
  \/ StoreLoad
  \/ Start
  \/ TimerFire
  \/ \E i \in TickIds : InvokeResolve(i)
  \/ \E i \in TickIds : InvokeReject(i)
  \/ \E i \in TickIds : WriteResolve(i)
  \/ \E p \in ReschedInputs : Schedule(p)
  \/ CallerWriteResolve

SpecResched == InitLive /\ [][NextResched]_vars

\* ================================================================ claims
\* the ids of a list of tasks, in order
IdsOf(ts) == [k \in 1..Len(ts) |-> ts[k].id]
\* the record of the task an activation is working on
Entry(a) == a.log[Len(a.log)]
\* a step that leaves activation i at the same task
SameTask(i) == Active(i) /\ tk'[i].pc # "idle" /\ Len(tk'[i].log) = Len(tk[i].log)
\* a step that begins a pass in slot i
Begins(i) == ~Active(i) /\ tk'[i].pc # "idle"
\* a step that ends the pass in slot i
Ends(i) == Active(i) /\ tk'[i].pc = "idle"

\* C1: at most one tick() is in progress at any instant, and a call of
\* tick() (timer or start-up) that arrives while one is in progress begins no
\* pass and leaves nothing behind that could run later: a pass begins only
\* in a step from a state without one, and the step that marks a pass as
\* refired changes nothing else of the runner or the store.
C1_SingleFlight ==
  /\ [](Cardinality(ActiveTicks) <= 1)
  /\ [][\A i \in TickIds :
          /\ Begins(i) => ActiveTicks = {} /\ ~running
          /\ (Active(i) /\ ~tk[i].refired /\ tk'[i].refired) =>
               /\ tk'[i] = [tk[i] EXCEPT !.refired = TRUE]
               /\ Cardinality(ActiveTicks') = 1
               /\ <<tasks, file, running, caller>>' = <<tasks, file, running, caller>>]_vars
C1_Witness == \E i \in TickIds : Active(i) /\ tk[i].refired /\ running

\* the ids of a list are all different
Distinct(ids) == \A j, k \in 1..Len(ids) : ids[j] = ids[k] => j = k

\* C2: when tick() is called again before a pass has completed (invoke is
\* slow), that pass stays the only one, it calls invoke for the tasks of its
\* due list one by one, each once and none twice, and when it completes
\* (no store write having failed under it, which would end it early) it has
\* called invoke for every task of the list.
C2_NoDoubleDispatch ==
  /\ [](\A i \in TickIds : (Active(i) /\ tk[i].refired) =>
          /\ ActiveTicks = {i}
          /\ ~seen.dup
          /\ Distinct(IdsOf(tk[i].due))
          /\ Len(tk[i].log) = tk[i].idx
          /\ IdsOf(tk[i].log) = SubSeq(IdsOf(tk[i].due), 1, tk[i].idx))
  /\ [][\A i \in TickIds :
          (Ends(i) /\ tk[i].refired /\ nWFail' = nWFail) =>
             IdsOf(tk[i].log) = IdsOf(tk[i].due)]_vars
C2_Witness ==
  \E i \in TickIds : /\ tk[i].refired
                     /\ tk[i].pc = "saveS"
                     /\ Len(tk[i].due) = 2
                     /\ tk[i].idx = 2

\* a step in which runTask makes its store call(s) for the current task of
\* activation i: after invoke or the hook has settled, or after the write of
\* markRunSuccess has failed
Settles(i) ==
  \/ /\ tk[i].pc \in {"invoke", "reply"}
     /\ tk'[i].pc \in {"saveS", "saveF", "idle"} \/ tk'[i].idx # tk[i].idx
  \/ tk[i].pc = "saveS" /\ nWFail' # nWFail /\ tk'[i] # tk[i]

\* C3: as long as schedule() is not called for an id, invoke is called at
\* most once for a pair (id, nextRunAt), over all ticks; and when runTask
\* has made its store call for a task, on success and on failure, the task
\* is no longer stored or its nextRunAt is strictly later than the clock
\* the store call read.
C3_OncePerDueInstant ==
  /\ [](~seen.dup)
  /\ [][\A i \in TickIds :
          Settles(i) =>
            LET k == get(tasks', CurTask(tk[i]).id)
            IN k = NoTask \/ DateParse(tasks'[k].nextRunAt) > now]_vars
C3_Witness ==
  \E q1, q2 \in seen.pairs : q1[1] = q2[1] /\ q1[2] < q2[2]

\* a step in which markRunSuccess is called for the current task of
\* activation i and finds it stored
MarkedS(i) ==
  /\ SameTask(i)
  /\ Entry(tk[i]).marks = <<>>
  /\ Entry(tk'[i]).marks # <<>>
  /\ Head(Entry(tk'[i]).marks) = "S"
\* a step in which markRunFailure is called for the current task of
\* activation i and finds it stored
MarkedF(i) ==
  /\ SameTask(i)
  /\ Len(Entry(tk'[i]).marks) > Len(Entry(tk[i]).marks)
  /\ Entry(tk'[i]).marks[Len(Entry(tk'[i]).marks)] = "F"
\* the task with this id as stored before and after the step
Stored(id) == tasks[get(tasks, id)]
StoredAfter(id) == tasks'[get(tasks', id)]
InFile(id) == \E k \in 1..Len(file.tasks) : file.tasks[k].id = id

\* C4: a once task that a markRunSuccess has removed (the call has returned)
\* is, until it is scheduled anew, absent from the store's tasks (list, get,
\* due) and from the persisted document, and the runner does not invoke it;
\* markRunSuccess removes no interval and no daily_local task.
C4_InMemory ==
  \A id \in retired :
    /\ get(tasks, id) = NoTask
    /\ \A i \in TickIds : ~(tk[i].pc \in {"invoke", "reply"} /\ CurTask(tk[i]).id = id)
C4_Persisted == \A id \in retired : ~InFile(id)
C4_OthersKept ==
  [][\A i \in TickIds :
       (MarkedS(i) /\ Stored(CurTask(tk[i]).id).repeat.mode # "once") =>
          get(tasks', CurTask(tk[i]).id) # NoTask]_vars
C4_OnceRemoved == [](C4_InMemory /\ C4_Persisted) /\ C4_OthersKept

\* C5: markRunSuccess on an interval task sets nextRunAt to the old nextRunAt
\* plus k steps of everySeconds, k >= 1 the least for which the result is
\* strictly later than the clock at the call: slots the clock has passed are
\* skipped and the result is never at or before the clock.
C5_IntervalAdvance ==
  [][\A i \in TickIds :
       (MarkedS(i) /\ Stored(CurTask(tk[i]).id).repeat.mode = "interval") =>
          LET id == CurTask(tk[i]).id
              step == Stored(id).repeat.everySeconds * 1000
              old == DateParse(Stored(id).nextRunAt)
              new == DateParse(StoredAfter(id).nextRunAt)
          IN /\ get(tasks', id) # NoTask
             /\ DateParseOk(StoredAfter(id).nextRunAt)
             /\ new > now
             /\ new - old >= step
             /\ (new - old) % step = 0
             /\ new - old = step \/ new - step <= now]_vars
\* an interval task that was due at 0 has run at 61000: twelve slots skipped
C5_Witness ==
  \E i \in TickIds :
    /\ tk[i].pc = "saveS"
    /\ Entry(tk[i]).at = 0
    /\ now = 61000
    /\ get(tasks, CurTask(tk[i]).id) # NoTask
    /\ Stored(CurTask(tk[i]).id).repeat.mode = "interval"
    /\ Stored(CurTask(tk[i]).id).nextRunAt = IsoZ(65000)

\* C6: every markRunFailure that finds its task, whatever the repeat kind
\* and whether or not the task had failed before, sets nextRunAt to the
\* clock plus 60 s and leaves the task stored, its repeat and its enabled
\* flag as they were, and the other tasks in place.
C6_RetryDelay ==
  [][\A i \in TickIds :
       MarkedF(i) =>
          LET id == CurTask(tk[i]).id
          IN /\ get(tasks', id) # NoTask
             /\ StoredAfter(id).nextRunAt = toISOString(now + 60000)
             /\ StoredAfter(id).lastError # <<>>
             /\ StoredAfter(id).repeat = Stored(id).repeat
             /\ StoredAfter(id).enabled = Stored(id).enabled
             /\ IdsOf(tasks') = IdsOf(tasks)]_vars
\* a task that had failed at 0 has failed again at 61000
C6_Witness ==
  \E i \in TickIds :
    /\ tk[i].pc = "saveF"
    /\ CurTask(tk[i]).lastError # <<>>
    /\ get(tasks, CurTask(tk[i]).id) # NoTask
    /\ Stored(CurTask(tk[i]).id).nextRunAt = IsoZ(121000)

\* C7: markRunSuccess on a daily_local task sets nextRunAt to the next
\* occurrence of its localTime in its timezone strictly after the clock,
\* keeps the task stored and records a success: lastRunAt set, lastError
\* cleared, and no markRunFailure for that run.
C7_DailyLocalSuccess ==
  [][\A i \in TickIds :
       (MarkedS(i) /\ Stored(CurTask(tk[i]).id).repeat.mode = "daily_local") =>
          LET id == CurTask(tk[i]).id
              rep == Stored(id).repeat
          IN /\ get(tasks', id) # NoTask
             /\ StoredAfter(id).nextRunAt =
                  nextLocalTimeUtcIso(rep.timezone, rep.localTime, now).iso
             /\ DateParse(StoredAfter(id).nextRunAt) > now
             /\ StoredAfter(id).lastRunAt = <<toISOString(now)>>
             /\ StoredAfter(id).lastError = <<>>
             /\ Entry(tk'[i]).marks = <<"S">>]_vars

\* runTask has made its store call for entry k of the log of activation a
Settled(a, k) == k < Len(a.log) \/ a.pc \in {"saveS", "saveF"}
\* some store call was made for log entry e by markRunFailure
HasF(e) == \E m \in 1..Len(e.marks) : e.marks[m] = "F"

\* C8 as stated: a task whose invoke or whose reply hook failed has the
\* failure recorded by markRunFailure, and a pass in which one failed still
\* calls invoke for every task of its due list.
C8_AsStated ==
  /\ [](\A i \in TickIds : \A k \in 1..Len(tk[i].log) :
          (Settled(tk[i], k) /\ (tk[i].log[k].inv = "err" \/ tk[i].log[k].hook = "err"))
             => HasF(tk[i].log[k]))
  /\ [][\A i \in TickIds :
          (Ends(i) /\ \E k \in 1..Len(tk[i].log) :
                        tk[i].log[k].inv = "err" \/ tk[i].log[k].hook = "err")
             => IdsOf(tk[i].log) = IdsOf(tk[i].due)]_vars

\* C8 (amended): a failed invoke is answered by markRunFailure alone, which
\* records the error on the task if it is still stored; after a failed reply
\* hook runTask goes on to markRunSuccess as after a hook that succeeded; and either
\* way the pass goes on: a pass ends before it has called invoke for every
\* task of its due list only in a step in which a store write fails.
C8_FailureIsolation ==
  /\ [](\A i \in TickIds : \A k \in 1..Len(tk[i].log) :
          Settled(tk[i], k) =>
             /\ tk[i].log[k].inv = "err" => tk[i].log[k].marks = <<"F">>
             /\ tk[i].log[k].hook = "err" =>
                   tk[i].log[k].inv = "ok" /\ Head(tk[i].log[k].marks) = "S")
  /\ [][\A i \in TickIds :
          /\ (tk[i].pc = "invoke" /\ MarkedF(i) /\ Entry(tk'[i]).inv = "err") =>
                StoredAfter(CurTask(tk[i]).id).lastError = <<"invoke failed">>
          /\ (Ends(i) /\ nWFail' = nWFail) => IdsOf(tk[i].log) = IdsOf(tk[i].due)]_vars
\* the hook failed for the first task, invoke was called for the second and
\* failed, and markRunFailure has been called for it
C8_Witness ==
  \E i \in TickIds :
    /\ Len(tk[i].log) = 2
    /\ tk[i].log[1].hook = "err"
    /\ tk[i].log[2].inv = "err"
    /\ tk[i].pc = "saveF"

\* C9: the runner never has two invoke calls in flight; while invoke or the
\* reply hook of a task is in flight no store write of the pass is pending,
\* and the store call for every earlier task of the due list has been made
\* and has returned.
C9_Sequential ==
  /\ Cardinality({i \in TickIds : tk[i].pc = "invoke"}) <= 1
  /\ \A i \in TickIds :
        /\ tk[i].pc \in {"invoke", "reply"} => tk[i].w = <<>>
        /\ Active(i) =>
              /\ Len(tk[i].log) = tk[i].idx
              /\ \A k \in 1..(Len(tk[i].log) - 1) :
                    /\ tk[i].log[k].id = tk[i].due[k].id
                    /\ tk[i].log[k].inv # "pending"
                    /\ tk[i].log[k].marks # <<>>
C9_Witness ==
  \E i \in TickIds :
    /\ tk[i].pc = "invoke"
    /\ tk[i].idx = 2
    /\ tk[i].log[1].marks # <<>>

\* C10: the list a pass works on is exactly the stored tasks that are
\* enabled and have nextRunAt at or before the clock when the pass begins,
\* in the order of the store; so the task invoke is called for was enabled
\* and due at the start of the pass.
C10_DueExactly ==
  /\ [](\A i \in TickIds : \A k \in 1..Len(tk[i].log) :
          /\ tk[i].log[k].id = tk[i].due[k].id
          /\ tk[i].due[k].enabled
          /\ DateParse(tk[i].due[k].nextRunAt) <= tk[i].t0)
  /\ [][\A i \in TickIds :
          Begins(i) =>
            /\ tk'[i].t0 = now
            /\ \A k \in 1..Len(tasks) :
                  (tasks[k].enabled /\ DateParse(tasks[k].nextRunAt) <= now)
                     <=> (\E j \in 1..Len(tk'[i].due) : tk'[i].due[j] = tasks[k])
            /\ \A j1, j2 \in 1..Len(tk'[i].due) :
                  j1 < j2 => get(tasks, tk'[i].due[j1].id) < get(tasks, tk'[i].due[j2].id)]_vars
\* a pass is calling invoke while a disabled task is stored
C10_Witness ==
  \E i \in TickIds :
    /\ tk[i].pc = "invoke"
    /\ \E k \in 1..Len(tasks) : ~tasks[k].enabled /\ DateParse(tasks[k].nextRunAt) <= now

\* a step in which a caller's schedule() goes through, for a stored id
SchedulesAgain(id) ==
  /\ caller.pc = "idle"
  /\ caller'.pc = "save"
  /\ caller'.op = "schedule"
  /\ ret'.arg = id
  /\ get(tasks, id) # NoTask

\* C11: from a store without tasks or with tasks of different ids, after
\* any sequence of schedule, cancel, markRunSuccess and markRunFailure calls
\* no two stored tasks have the same id, and a schedule() for an id that is
\* stored leaves the number of stored tasks, and their ids, as they were.
C11_UniqueIds ==
  /\ [](Distinct(IdsOf(tasks)) /\ Distinct(IdsOf(file.tasks)))
  /\ [][\A id \in Ids :
          SchedulesAgain(id) => Len(tasks') = Len(tasks) /\ IdsOf(tasks') = IdsOf(tasks)]_vars
\* two tasks are stored and one of them was scheduled again at a later time
C11_Witness ==
  /\ ret.op = "schedule"
  /\ ret.st = "ok"
  /\ Len(tasks) = 2
  /\ ret.out[1].createdAt # ret.out[1].updatedAt

\* C12: a schedule() for an id that is stored updates that task where it
\* stands: createdAt, lastRunAt and lastError stay as they were; message and
\* threadId (without surrounding blanks), repeat and enabled are the ones
\* passed; updatedAt is the time of the call; nextRunAt is the instant of
\* the runAt passed; every other task stays as it was.
C12_UpdateInPlace ==
  [][\A id \in Ids :
       SchedulesAgain(id) =>
         LET k == get(tasks, id)
             old == tasks[k]
             new == tasks'[k]
             p == ret'.par[1]
         IN /\ Len(tasks') = Len(tasks)
            /\ \A j \in 1..Len(tasks) : j # k => tasks'[j] = tasks[j]
            /\ new.id = id
            /\ new.createdAt = old.createdAt
            /\ new.lastRunAt = old.lastRunAt
            /\ new.lastError = old.lastError
            /\ new.message = trim(p.message)
            /\ new.threadId = trim(p.threadId)
            /\ new.repeat = p.repeat
            /\ new.enabled = p.enabled
            /\ new.updatedAt = IsoZ(now)
            /\ DateParseOk(new.nextRunAt)
            /\ DateParse(new.nextRunAt) = DateParse(p.runAt)]_vars
\* a task that has run and failed, and whose next run had moved, was
\* scheduled again with another repeat, later than it was created
C12_Witness ==
  /\ ret.op = "schedule"
  /\ ret.st = "ok"
  /\ get(tasks, ret.arg) # NoTask
  /\ Stored(ret.arg).lastRunAt # <<>>
  /\ Stored(ret.arg).lastError # <<>>
  /\ Stored(ret.arg).createdAt # Stored(ret.arg).updatedAt
  /\ Stored(ret.arg).repeat.mode = "once"
  /\ InFile(ret.arg)
  /\ file.tasks = tasks

\* C13: the runAt of a task never changes while the task is stored: no
\* markRunSuccess, markRunFailure or schedule() for its id moves the instant
\* it was created with.
C13_RunAtImmutable ==
  [][\A id \in Ids :
       (get(tasks, id) # NoTask /\ get(tasks', id) # NoTask)
         => DateParse(StoredAfter(id).runAt) = DateParse(Stored(id).runAt)]_vars
\* the same, for the steps of markRunSuccess and markRunFailure alone
C13_MarksKeepRunAt ==
  [][\A id \in Ids :
       (get(tasks, id) # NoTask /\ get(tasks', id) # NoTask /\ ~SchedulesAgain(id))
         => StoredAfter(id).runAt = Stored(id).runAt]_vars

\* a step in which the write of a store call completes and the call returns
\* to the caller, or to the runner's activation i
CallerReturns == caller.pc = "save" /\ caller'.pc = "idle" /\ nWFail' = nWFail
RunnerReturns(i) ==
  /\ tk[i].pc \in {"saveS", "saveF"}
  /\ tk'[i].pc \notin {"saveS", "saveF"}
  /\ nWFail' = nWFail
\* no store call is suspended at its write
NoWritePending ==
  /\ caller.pc = "idle"
  /\ \A i \in TickIds : tk[i].pc \notin {"saveS", "saveF"}

\* C14: when a mutating store call (load of an absent file, schedule, cancel
\* that found its task, markRunSuccess, markRunFailure) has returned without
\* error and no other store call is under way, the tasks of the persisted
\* document are the tasks in memory.
C14_Flushed ==
  [][((CallerReturns \/ \E i \in TickIds : RunnerReturns(i)) /\ NoWritePending')
        => file'.exists /\ file'.tasks = tasks']_vars

\* a task that has a timestamp that is no date, or an interval below the
\* minimum; a document that cannot be parsed, or is of another version, or
\* whose tasks are no list, or that holds such a task
InvalidTask(t) ==
  \/ \E at \in {t.runAt, t.nextRunAt, t.createdAt, t.updatedAt} : ~DateParseOk(at)
  \/ t.lastRunAt # <<>> /\ ~DateParseOk(t.lastRunAt[1])
  \/ t.repeat.mode = "interval" /\ t.repeat.everySeconds < 5
InvalidDoc(f) ==
  /\ f.exists
  /\ \/ ~f.json
     \/ f.version # 1
     \/ ~f.isList
     \/ \E k \in 1..Len(f.tasks) : InvalidTask(f.tasks[k])

\* C15: load() of an absent file empties the store and starts the write of
\* the empty document at once, which leaves the empty document persisted;
\* load() of a document that cannot be parsed, has a version other than 1,
\* has tasks that are no list, or holds a task with an invalid timestamp or
\* an interval below 5 seconds fails, and the store holds no task of it;
\* load() of any other document takes its tasks.
C15_Load ==
  /\ [][(ret = NoRet /\ ret'.op = "load") =>
          IF ~file.exists
          THEN /\ tasks' = <<>>
               /\ ret'.st = "pending"
               /\ caller' = [pc |-> "save", op |-> "load", w |-> <<>>]
          ELSE IF InvalidDoc(file)
          THEN /\ ret'.st = "throw"
               /\ tasks' = <<>>
               /\ ~ready'
               /\ caller' = caller
               /\ file' = file
          ELSE /\ ret'.st = "ok"
               /\ tasks' = file.tasks
               /\ ready']_vars
  /\ [][(caller.op = "load" /\ CallerReturns) =>
          /\ file' = Doc(<<>>)
          /\ tasks' = <<>>
          /\ ready'
          /\ ret'.st = "ok"]_vars
  /\ []((ret.op = "load" /\ ret.st = "throw") => tasks = <<>> /\ ~ready)
\* load() has failed on a document whose second task has an interval below
\* the minimum
C15_Witness ==
  /\ ret.op = "load"
  /\ ret.st = "throw"
  /\ file.json /\ file.version = 1 /\ file.isList
  /\ Len(file.tasks) = 2
  /\ ~InvalidTask(file.tasks[1])
  /\ file.tasks[2].repeat.mode = "interval"
  /\ file.tasks[2].repeat.everySeconds < 5

\* parameters schedule() has to reject: a runAt that is no date, or an
\* interval whose everySeconds is no integer or is below 5
BadInput(p) ==
  \/ ~DateParseOk(p.runAt)
  \/ /\ p.repeat.mode = "interval"
     /\ p.repeat.half \/ p.repeat.everySeconds < 5

\* C16: a schedule() whose runAt is no date, or whose repeat is an
\* interval with an everySeconds that is no integer or is below 5, fails and
\* changes neither the tasks in memory nor the persisted document, and
\* starts no write; every other schedule() goes through, among them the
\* once tasks, for which everySeconds is not looked at.
C16_RejectsBadInput ==
  [][(caller.pc = "idle" /\ ret'.op = "schedule" /\ ret' # ret) =>
       IF BadInput(ret'.par[1])
       THEN /\ ret'.st = "throw"
            /\ tasks' = tasks
            /\ file' = file
            /\ caller' = caller
       ELSE /\ ret'.st = "pending"
            /\ get(tasks', ret'.arg) # NoTask
            /\ StoredAfter(ret'.arg).repeat = ret'.par[1].repeat]_vars
\* a schedule() with an everySeconds of seven and a half has failed on a
\* store of two tasks
C16_Witness ==
  /\ ret.op = "schedule"
  /\ ret.st = "throw"
  /\ ret.par[1].repeat.half
  /\ ret.par[1].repeat.everySeconds >= 5
  /\ Len(tasks) = 2
  /\ file.tasks = tasks

\* the tasks of a sequence, as a set
TasksOf(ts) == {ts[k] : k \in 1..Len(ts)}

\* C17: cancel(id) of a stored id removes that task and leaves every other
\* task as it was, starts the write of the remaining tasks, and when the
\* write is done the document holds them and the call gives true;
\* cancel(id) of an id that is not stored gives false, changes neither the
\* tasks nor the document, and starts no write.
C17_Cancel ==
  /\ [][(caller.pc = "idle" /\ ret'.op = "cancel" /\ ret' # ret) =>
          IF get(tasks, ret'.arg) # NoTask
          THEN /\ ret'.st = "pending"
               /\ TasksOf(tasks') = TasksOf(tasks) \ {Stored(ret'.arg)}
               /\ Len(tasks') = Len(tasks) - 1
               /\ caller' = [pc |-> "save", op |-> "cancel", w |-> tasks']
               /\ file' = file
          ELSE /\ ret'.st = "false"
               /\ tasks' = tasks
               /\ file' = file
               /\ caller' = caller]_vars
  /\ [][(caller.op = "cancel" /\ CallerReturns) =>
          /\ ret'.st = "true"
          /\ tasks' = tasks
          /\ file'.tasks = tasks
          /\ get(tasks, ret.arg) = NoTask]_vars
  /\ [](ret.op = "cancel" => ret.st \in {"pending", "true", "false"})
\* a cancel() has given true and written the one task that is left
C17_Witness ==
  /\ ret.op = "cancel"
  /\ ret.st = "true"
  /\ Len(tasks) = 1
  /\ file.tasks = tasks
  /\ tasks[1].id # ret.arg

\* the larger of two numbers
Larger(a, b) == IF a > b THEN a ELSE b
\* the smaller of two numbers
Smaller(a, b) == IF a < b THEN a ELSE b

\* C18: list(limit) gives the stored tasks in ascending order of the
\* instants of their nextRunAt, cut to the first max(1, limit) of them, and
\* changes nothing of the store.
C18_ListOrdered ==
  /\ [](ret.op = "list" =>
          /\ \A j \in 1..(Len(ret.out) - 1) :
                DateParse(ret.out[j].nextRunAt) <= DateParse(ret.out[j + 1].nextRunAt)
          /\ Len(ret.out) = Smaller(Len(tasks), Larger(1, ret.n))
          /\ TasksOf(ret.out) \subseteq TasksOf(tasks)
          /\ \A t \in TasksOf(tasks) \ TasksOf(ret.out) : \A u \in TasksOf(ret.out) :
                DateParse(u.nextRunAt) <= DateParse(t.nextRunAt))
  /\ [][(ret'.op = "list" /\ ret' # ret) =>
          <<tasks, file, caller, ready>>' = <<tasks, file, caller, ready>>]_vars
\* the same but for the order: what list(limit) cuts and what it leaves alone
C18_ListCut ==
  /\ [](ret.op = "list" =>
          /\ Len(ret.out) = Smaller(Len(tasks), Larger(1, ret.n))
          /\ TasksOf(ret.out) \subseteq TasksOf(tasks))
  /\ [][(ret'.op = "list" /\ ret' # ret) =>
          <<tasks, file, caller, ready>>' = <<tasks, file, caller, ready>>]_vars

\* a step in which the reply hook of the current task of activation i fails
\* and runTask goes on with that task, which is stored
HookFails(i) ==
  /\ tk[i].pc = "reply"
  /\ SameTask(i)
  /\ Entry(tk'[i]).hook = "err"
  /\ get(tasks, CurTask(tk[i]).id) # NoTask

\* C19: when invoke has succeeded and the reply hook fails, markRunSuccess
\* is applied to the task all the same (lastRunAt is the time of the call,
\* lastError is cleared, and a once task is removed while any other task
\* gets a nextRunAt after the clock), and markRunFailure is not called.
C19_HookFailureKeepsSuccess ==
  [][\A i \in TickIds :
       HookFails(i) =>
         LET id == CurTask(tk[i]).id
         IN /\ Entry(tk'[i]).marks = <<"S">>
            /\ tk'[i].pc = "saveS"
            /\ IF Stored(id).repeat.mode = "once"
               THEN get(tasks', id) = NoTask
               ELSE /\ get(tasks', id) # NoTask
                    /\ StoredAfter(id).lastRunAt = <<IsoZ(now)>>
                    /\ StoredAfter(id).lastError = <<>>
                    /\ DateParse(StoredAfter(id).nextRunAt) > now]_vars
\* the same, for once and interval tasks alone
C19_OnceAndInterval ==
  [][\A i \in TickIds :
       (HookFails(i) /\ Stored(CurTask(tk[i]).id).repeat.mode \in {"once", "interval"}) =>
         LET id == CurTask(tk[i]).id
         IN /\ Entry(tk'[i]).marks = <<"S">>
            /\ tk'[i].pc = "saveS"
            /\ IF Stored(id).repeat.mode = "once"
               THEN get(tasks', id) = NoTask
               ELSE /\ get(tasks', id) # NoTask
                    /\ StoredAfter(id).lastRunAt = <<IsoZ(now)>>
                    /\ StoredAfter(id).lastError = <<>>
                    /\ DateParse(StoredAfter(id).nextRunAt) > now]_vars

\* a step in which the write of the store call of activation i fails
WriteFails(i) ==
  /\ tk[i].pc \in {"saveS", "saveF"}
  /\ nWFail' = nWFail + 1
  /\ caller' = caller

\* C20: a store write that fails during a pass ends the pass: the error
\* leaves runTask, is logged by tick, no further task of the pass is worked
\* on and no further store call is made, the in-progress guard is cleared
\* and the timer stays as it is, so the next firing begins a new pass.
C20_StoreFailureEndsTick ==
  [][\A i \in TickIds :
       WriteFails(i) =>
         /\ tk'[i] = IdleTick
         /\ ~running'
         /\ ActiveTicks' = {}
         /\ timer' = timer
         /\ tasks' = tasks]_vars
\* the same, for the write of markRunFailure alone
C20_FailureWriteEndsTick ==
  [][\A i \in TickIds :
       (WriteFails(i) /\ tk[i].pc = "saveF") =>
         /\ tk'[i] = IdleTick
         /\ ~running'
         /\ ActiveTicks' = {}
         /\ timer' = timer
         /\ tasks' = tasks]_vars

\* C21: while the timer is cleared (after stop(), before the next start())
\* no pass begins; the step of stop() changes nothing but the timer, so a pass
\* in progress keeps its place, its due list and the in-progress guard; and
\* a pass ends, with the timer set or cleared, only when invoke and the
\* store call have been made for every task of its due list, or when a
\* store write fails.
C21_StopLetsPassFinish ==
  [][/\ \A i \in TickIds : Begins(i) => timer' # 0
     /\ (timer # 0 /\ timer' = 0) =>
           <<tk, running, tasks, file, caller>>' = <<tk, running, tasks, file, caller>>
     /\ \A i \in TickIds :
           (Ends(i) /\ timer = 0 /\ nWFail' = nWFail) =>
              /\ IdsOf(tk[i].log) = IdsOf(tk[i].due)
              /\ Len(tk[i].log) = Len(tk[i].due)
              /\ tk[i].idx = Len(tk[i].due)
              /\ \A k \in 1..(Len(tk[i].log) - 1) :
                    tk[i].log[k].inv # "pending" /\ tk[i].log[k].marks # <<>>]_vars
\* the timer is cleared and the pass in progress is at the store write for
\* the second task of its due list
C21_Witness ==
  /\ timer = 0
  /\ running
  /\ \E i \in TickIds :
        /\ tk[i].pc \in {"saveS", "saveF"}
        /\ tk[i].idx = 2
        /\ Len(tk[i].due) = 2

\* C22: an interval task keeps its slot grid through a failed run and its
\* retry: when the task has no error on record (it was never run, or its
\* last run was marked a success) its nextRunAt is its runAt plus a whole
\* number of steps of everySeconds, as it was before the failure.
C22_BackOnGrid ==
  \A k \in 1..Len(tasks) :
    (tasks[k].repeat.mode = "interval" /\ tasks[k].lastError = <<>>) =>
      (DateParse(tasks[k].nextRunAt) - DateParse(tasks[k].runAt))
         % (tasks[k].repeat.everySeconds * 1000) = 0

\* the local date and time asked for exist in the zone: some instant is
\* rendered as them
Exists(q) ==
  LET target == DateUTC(q.date, q.time.hh, q.time.mm)
  IN \E o \in ZoneOffsets(q.tz) : OffsetMin(q.tz, target - o * MinuteMs) = o
\* the instant ms is rendered in the zone as the date and time asked for
RendersAs(ms, q) ==
  LET local == ms + OffsetMin(q.tz, ms) * MinuteMs
  IN local = DateUTC(q.date, q.time.hh, q.time.mm)

\* C23: for a local date and time that exist in the zone (they are not in
\* a gap), zonedDateTimeToUtc returns an instant, and that instant is
\* rendered in the zone as exactly the date, hour and minute asked for;
\* this includes the local times that occur twice when clocks go back.
C23_RoundTrip ==
  (ret.op = "zonedDateTimeToUtcMs" /\ Exists(ret.par[1])) =>
     ret.st = "ok" /\ RendersAs(ret.n, ret.par[1])
\* 01:30 on the day clocks go back in America/New_York, a time that occurs
\* twice, was converted
C23_Witness ==
  /\ ret.op = "zonedDateTimeToUtcMs"
  /\ ret.st = "ok"
  /\ ret.arg = "America/New_York"
  /\ ret.par[1].date = FallDay
  /\ ret.par[1].time = LocalTimeText(1, 30)
  /\ ret.n \in {FallDay * DayMs + 5 * HourMs + HalfHourMs,
                 FallDay * DayMs + 6 * HourMs + HalfHourMs}

\* the clock of the zone shows the local time asked for at instant ms
ClockIs(ms, q) ==
  (ms + OffsetMin(q.tz, ms) * MinuteMs) % DayMs = q.time.hh * HourMs + q.time.mm * MinuteMs

\* C24: what nextLocalTimeUtc returns is an instant after `from` at which
\* the clock of the zone shows the time asked for, and the first such
\* instant: at no instant between `from` and the result does the clock of
\* the zone show that time.
C24_Earliest ==
  (ret.op = "nextLocalTimeUtcIso" /\ ret.st = "ok") =>
     LET q == ret.par[1]
     IN /\ ret.n > q.fromMs
        /\ ClockIs(ret.n, q)
        /\ \A k \in 1..((ret.n - q.fromMs) \div HalfHourMs) :
              q.fromMs + k * HalfHourMs < ret.n => ~ClockIs(q.fromMs + k * HalfHourMs, q)
\* the same without the claim of being the first: later than `from`, and
\* showing the time asked for
C24_LaterAndOnTime ==
  (ret.op = "nextLocalTimeUtcIso" /\ ret.st = "ok") =>
     ret.n > ret.par[1].fromMs /\ ClockIs(ret.n, ret.par[1])

\* C25: for a valid zone and a valid HH:mm nextLocalTimeUtc succeeds, also
\* when the time asked for does not exist on the next candidate date: that
\* date is passed over and the occurrence on the following valid date is
\* returned.
C25_SkipsGap ==
  (ret.op = "nextLocalTimeUtcIso") =>
     /\ ret.st = "ok"
     /\ ret.n > ret.par[1].fromMs
     /\ ClockIs(ret.n, ret.par[1])

\* C26: zonedDateTimeToUtc fails for a local date and time that do not
\* exist in the zone (inside a gap, where its rounds never settle), and
\* whenever it returns, the instant is rendered in the zone as exactly the
\* date, hour and minute asked for.
C26_NeverApproximates ==
  (ret.op = "zonedDateTimeToUtcMs") =>
     /\ ~Exists(ret.par[1]) => ret.st = "throw"
     /\ ret.st = "ok" => RendersAs(ret.n, ret.par[1])
\* 02:30 on the day clocks go forward in America/New_York was refused
C26_Witness ==
  /\ ret.op = "zonedDateTimeToUtcMs"
  /\ ret.st = "throw"
  /\ ret.arg = "America/New_York"
  /\ ret.par[1].date = SpringDay
  /\ ret.par[1].time = LocalTimeText(2, 30)
  /\ ~Exists(ret.par[1])

\* the activations of the heartbeat's tick() that are in progress
BeatsActive == {i \in HbIds : hb.act[i].pc # "idle"}

\* C27: at most one tick of the heartbeat is in progress at any time, and
\* while one is (its file read or its invoke is pending) a firing of the
\* heartbeat's timer changes no activation: it starts none and calls
\* invoke for none.
C27_SingleFlight ==
  [][/\ Cardinality(BeatsActive') <= 1
     /\ BeatsActive' # {} => hb'.running
     /\ (HbTimerFire /\ BeatsActive # {}) => (hb'.act = hb.act /\ hb'.running)]_vars
\* the timer fired while the invoke of a heartbeat tick was pending
C27_Witness ==
  /\ hb.dropped
  /\ hb.timer # 0
  /\ \E i \in HbIds : hb.act[i].pc = "invoke"

\* C28: a heartbeat tick whose read has settled has called invoke exactly
\* once, with the configured threadId and the preamble, an empty line and
\* the trimmed content, if the file was there and its content is not empty
\* after trimming; otherwise (file missing, content empty or white space)
\* it has not called invoke and has reported no error.
C28_InvokeIffContent ==
  \A i \in HbIds :
    LET a == hb.act[i]
        full == a.found = "content" /\ trim(a.content) # ""
    IN /\ a.found = "none" => a.inv = <<>>
       /\ a.found # "none" =>
            /\ full <=> Len(a.inv) = 1
            /\ Len(a.inv) <= 1
            /\ full => a.inv[1] = [threadId |-> hb.threadId,
                                   text |-> <<Preamble, "", trim(a.content)>>]
            /\ (a.found = "missing" \/ (a.found = "content" /\ ~full)) =>
                  (a.inv = <<>> /\ ~a.err /\ ~a.esc)
\* a tick has ended that read a text with white space around it and sent it
C28_Witness ==
  \E i \in HbIds :
    /\ hb.act[i].pc = "idle"
    /\ hb.act[i].found = "content"
    /\ hb.act[i].content = " do "
    /\ Len(hb.act[i].inv) = 1
    /\ hb.act[i].inv[1].text[3] = "do"
\* a tick has ended on a missing file, without invoke and without error
C28_SkipWitness ==
  \E i \in HbIds :
    hb.act[i].pc = "idle" /\ hb.act[i].found = "missing" /\ hb.act[i].inv = <<>>

\* C29: when the read of a heartbeat tick fails with an error other than
\* missing-file, or its invoke fails, the error is caught in the tick
\* (logged, not passed on), the tick ends with the in-progress guard
\* cleared and the timer as it was; and the next firing of the timer after
\* a tick that failed starts a tick.
C29_ErrorsIsolated ==
  [][/\ \A i \in HbIds :
          (HbReadReject(i, "EACCES") \/ HbInvokeReject(i)) =>
             /\ hb'.act[i].err
             /\ ~hb'.act[i].esc
             /\ hb'.act[i].pc = "idle"
             /\ ~hb'.running
             /\ hb'.timer = hb.timer
     /\ (HbTimerFire /\ BeatsActive = {} /\ \E i \in HbIds : hb.act[i].err) =>
          \E i \in HbIds : hb'.act[i].pc = "read"]_vars
\* a tick whose invoke failed has ended; the timer is armed, the guard clear
C29_Witness ==
  /\ hb.timer # 0
  /\ ~hb.running
  /\ \E i \in HbIds :
       /\ hb.act[i].pc = "idle"
       /\ hb.act[i].err
       /\ ~hb.act[i].esc
       /\ Len(hb.act[i].inv) = 1
\* a tick whose read failed with an error other than missing-file has ended
C29_ReadWitness ==
  /\ hb.timer # 0
  /\ ~hb.running
  /\ \E i \in HbIds : hb.act[i].found = "unreadable" /\ hb.act[i].err

\* C30: a firing of the scheduler's timer starts a pass whenever the
\* scheduler itself is idle and a task is due, whatever the heartbeat is
\* doing; a firing of the heartbeat's timer starts a heartbeat tick
\* whenever the heartbeat itself is idle, whatever the scheduler is doing;
\* and no step of the heartbeat changes the store, its file or the
\* scheduler.
C30_IndependentLoops ==
  [][/\ (TimerFire /\ ~running /\ due(tasks, now) # <<>>) => (running' /\ ActiveTicks' # {})
     /\ (HbTimerFire /\ ~hb.running) => (hb'.running /\ hb'.dropped = hb.dropped)
     /\ hb' # hb => UNCHANGED <<tasks, file, ready, caller, timer, running, tk>>]_vars
\* an invoke of the scheduler and an invoke of the heartbeat are pending
C30_Witness ==
  /\ \E i \in TickIds : tk[i].pc = "invoke"
  /\ \E j \in HbIds : hb.act[j].pc = "invoke"

\* the store calls made for a dispatched task are of outcome m alone
OnlyMarks(e, m) == \A k \in 1..Len(e.marks) : e.marks[k] = m

\* C31: for each task a pass has dispatched at most one outcome is recorded,
\* markRunSuccess when invoke succeeded and markRunFailure when it failed: a
\* task whose invoke succeeded never has markRunFailure called for it by
\* that run, also when markRunSuccess or its write raises an error.
C31_OneOutcome ==
  \A i \in TickIds : \A k \in 1..Len(tk[i].log) :
    LET e == tk[i].log[k]
    IN /\ Len(e.marks) <= 1
       /\ e.inv = "ok" => OnlyMarks(e, "S")
       /\ e.inv = "err" => OnlyMarks(e, "F")
       /\ e.inv = "pending" => e.marks = <<>>
\* the same for once and interval tasks alone, whose markRunSuccess itself
\* does not throw
C31_OnceAndInterval ==
  \A i \in TickIds : \A k \in 1..Len(tk[i].log) :
    LET e == tk[i].log[k]
    IN tk[i].due[k].repeat.mode \in {"once", "interval"} =>
         /\ Len(e.marks) <= 1
         /\ e.inv = "ok" => OnlyMarks(e, "S")
\* the part on failed invokes: markRunFailure and nothing else
C31_FailureRecorded ==
  \A i \in TickIds : \A k \in 1..Len(tk[i].log) :
    tk[i].log[k].inv = "err" => OnlyMarks(tk[i].log[k], "F")

\* C32: whenever the store is loaded, no write has failed and no store call
\* is suspended at its write (every call that wrote has returned, also calls
\* that overlapped in time), the tasks of the persisted document are the
\* tasks in memory, in whatever order the writes completed.
C32_NoStaleWrite ==
  (ready /\ NoWritePending /\ nWFail = 0) => (file.exists /\ file.tasks = tasks)

\* a step in which the write of a caller's schedule() or cancel() fails and
\* the call throws, while the runner has no pass in progress
CallerFails ==
  /\ caller.pc = "save"
  /\ caller.op \in {"schedule", "cancel"}
  /\ caller'.pc = "idle"
  /\ nWFail' = nWFail + 1
  /\ ActiveTicks = {}

\* C33: when the write of a schedule() or cancel() fails, the call leaves
\* the tasks in memory as they were before it: after the step they are not
\* what the call tried to write but the tasks of the document that was
\* persisted last.
C33_AtomicOnWriteFailure ==
  [][CallerFails => (tasks' = file'.tasks /\ file' = file)]_vars

\* the task with this id is stored, enabled and due
DueNow(id) == get(tasks, id) # NoTask /\ IsDue(tasks[get(tasks, id)], now)
\* the runner has called invoke for the task with this id and awaits it
InvokePending(id) ==
  \E i \in TickIds : tk[i].pc = "invoke" /\ CurTask(tk[i]).id = id

\* C34: with the timer armed and firing again and again, every invoke
\* settling and every write of the runner completing, a task that is stored,
\* enabled and due is eventually passed to invoke, unless it leaves the
\* store first; this includes a task that came due while a pass was under
\* way and was not in its due list.
C34_DueIsInvoked ==
  \A id \in Ids : (timer # 0 /\ DueNow(id)) ~> (InvokePending(id) \/ get(tasks, id) = NoTask)
\* invoke is pending for "b", which came due when the clock moved, in a pass
\* that is not the first
C34_Witness ==
  /\ timer # 0
  /\ now > 0
  /\ InvokePending("b")
  /\ \E i \in TickIds : tk[i].pc = "invoke" /\ tk[i].t0 > 0 /\ IdsOf(tk[i].due) = <<"b">>
  /\ "a" \in retired

\* C35: start() on an enabled runner without a timer arms the timer with a
\* period of max(5, tickSeconds) seconds and calls tick() once: a pass
\* begins in that step when none is in progress and a task is due, and no
\* more than one.  start() on a disabled runner and start() on a runner
\* that has a timer change nothing.  The timer is armed by no other step,
\* and never while one is live.
C35_StartArmsOnce ==
  [][/\ (Start /\ enabled /\ timer = 0) =>
          /\ timer' = (IF tickSeconds < 5 THEN 5 ELSE tickSeconds) * 1000
          /\ IF running \/ due(tasks, now) = <<>>
             THEN ActiveTicks' = ActiveTicks
             ELSE running' /\ Cardinality(ActiveTicks') = 1
     /\ (Start /\ ~enabled) => vars' = vars
     /\ (Start /\ timer # 0) => vars' = vars
     /\ timer' # timer => (timer = 0 \/ timer' = 0)
     /\ (timer = 0 /\ timer' # 0) => (enabled /\ Start)]_vars
\* a runner with tickSeconds 1 was started: its timer has a period of 5 s
\* and the pass of the immediate tick is at its invoke
C35_Witness ==
  /\ tickSeconds = 1
  /\ timer = 5000
  /\ running
  /\ \E i \in TickIds : tk[i].pc = "invoke" /\ tk[i].t0 = 0 /\ ~tk[i].refired
\* a disabled runner, loaded: no timer, no pass
C35_DisabledWitness ==
  ready /\ ~enabled /\ timer = 0 /\ ~running /\ ActiveTicks = {}

\* what a new store would hold after load() on document f
Reloaded(f) == load(<<>>, f)
\* a new store on the document (as it is, or as the write under way will
\* leave it) loads without error the very tasks this store holds in memory
Durable ==
  ready =>
    LET f == IF caller.pc = "save" THEN save(caller.w) ELSE file
    IN Reloaded(f).out = "ok" /\ Reloaded(f).tasks = tasks
\* a step in which a store call throws
Throws == caller.pc = "idle" /\ (ret' # ret \/ tasks' # tasks) /\ ret'.st = "throw"

CalledFor(op, id) ==
  /\ caller.pc = "idle"
  /\ ret' # ret \/ tasks' # tasks
  /\ ret'.op = op
  /\ ret'.arg = id

\* C37: lastRunAt is absent on a task that schedule() has just created,
\* markRunSuccess sets it to the time of the call and clears lastError,
\* markRunFailure sets lastError and leaves lastRunAt as it is, and no other
\* step changes lastRunAt: so lastRunAt is absent until the first
\* markRunSuccess and is the time of the latest one afterwards.
C37_RunHistory ==
  [][\A id \in Ids :
       IF get(tasks, id) # NoTask /\ get(tasks', id) # NoTask
       THEN IF CalledFor("markRunSuccess", id)
            THEN /\ StoredAfter(id).lastRunAt = <<toISOString(now)>>
                 /\ StoredAfter(id).lastError = <<>>
            ELSE IF CalledFor("markRunFailure", id)
            THEN /\ StoredAfter(id).lastError # <<>>
                 /\ StoredAfter(id).lastRunAt = Stored(id).lastRunAt
            ELSE StoredAfter(id).lastRunAt = Stored(id).lastRunAt
       ELSE (get(tasks', id) # NoTask /\ ret'.op = "schedule") =>
               (StoredAfter(id).lastRunAt = <<>> /\ StoredAfter(id).lastError = <<>>)]_vars
\* a task scheduled in this run was marked successful at 0 and failed at
\* 61000: lastRunAt is still the time of the success
C37_Witness ==
  \E id \in Ids :
    /\ nSched[id] > 0
    /\ get(tasks, id) # NoTask
    /\ now = 61000
    /\ ret.op = "markRunFailure"
    /\ ret.st = "ok"
    /\ Stored(id).lastRunAt = <<toISOString(0)>>
    /\ Stored(id).lastError # <<>>

\* a step in which activation i calls invoke for the task with this id
InvokeStarts(i, id) ==
  /\ tk'[i].pc = "invoke"
  /\ CurTask(tk'[i]).id = id
  /\ tk[i].pc # "invoke" \/ tk[i].idx # tk'[i].idx

\* C38: the runner calls invoke only for a task that is stored at that
\* moment: a task that a cancel() which has returned took out of the store,
\* and that was not scheduled again, is not invoked, also when the pass had
\* it in its due list from before the cancel.
C38_NoRunAfterCancel ==
  [][\A i \in TickIds : \A id \in Ids :
       (InvokeStarts(i, id) /\ caller.pc = "idle") => get(tasks, id) # NoTask]_vars

\* a step in which the invoke of activation i settles while the task it was
\* called for is stored with a nextRunAt in the future: the task was
\* scheduled again while the invoke was pending
SettlesRescheduled(i) ==
  /\ tk[i].pc = "invoke"
  /\ tk'[i] # tk[i]
  /\ get(tasks, CurTask(tk[i]).id) # NoTask
  /\ DateParse(Stored(CurTask(tk[i]).id).nextRunAt) > now

\* C39: when the invoke for a task settles after schedule() has given the
\* task a new runAt in the future, what the runner records for the old
\* occurrence neither removes the task nor changes its nextRunAt.
C39_RescheduleKept ==
  [][\A i \in TickIds :
       SettlesRescheduled(i) =>
         /\ get(tasks', CurTask(tk[i]).id) # NoTask
         /\ StoredAfter(CurTask(tk[i]).id).nextRunAt = Stored(CurTask(tk[i]).id).nextRunAt]_vars

\* the task is an interval task whose nextRunAt is its runAt plus a whole
\* number (zero or more) of steps of everySeconds
OnGrid(t) ==
  /\ t.repeat.mode = "interval"
  /\ DateParse(t.nextRunAt) >= DateParse(t.runAt)
  /\ (DateParse(t.nextRunAt) - DateParse(t.runAt)) % (t.repeat.everySeconds * 1000) = 0

\* C40: an interval task that a schedule() which does not throw stores
\* starts with nextRunAt = runAt, and every step other than a markRunFailure or a schedule() for
\* the task keeps it on its grid and does not move nextRunAt back: so while
\* the task is only marked successful, nextRunAt - runAt is a whole
\* multiple, zero or more, of everySeconds and nextRunAt never decreases.
C40_NoDrift ==
  [][\A id \in Ids :
       /\ (CalledFor("schedule", id) /\ ret'.st # "throw"
             /\ StoredAfter(id).repeat.mode = "interval")
            => StoredAfter(id).nextRunAt = StoredAfter(id).runAt
       /\ (get(tasks, id) # NoTask /\ get(tasks', id) # NoTask /\ OnGrid(Stored(id))
             /\ ~CalledFor("markRunFailure", id) /\ ~CalledFor("schedule", id))
            => /\ OnGrid(StoredAfter(id))
               /\ StoredAfter(id).runAt = Stored(id).runAt
               /\ DateParse(StoredAfter(id).nextRunAt) >= DateParse(Stored(id).nextRunAt)]_vars
\* an interval task scheduled in this run with runAt 0 was marked
\* successful at 61000, past twelve of its slots, and has never failed
C40_Witness ==
  \E id \in Ids :
    /\ nSched[id] > 0
    /\ get(tasks, id) # NoTask
    /\ OnGrid(Stored(id))
    /\ now = 61000
    /\ ret.op = "markRunSuccess"
    /\ ret.arg = id
    /\ ret.st = "ok"
    /\ Stored(id).lastRunAt = <<toISOString(61000)>>
    /\ DateParse(Stored(id).runAt) = 0
    /\ DateParse(Stored(id).nextRunAt) = 65000

====
